---------------------------- MODULE Spec2Model ----------------------------
(***************************************************************************)
(* A model of the video-transcript / AI-query backend.                     *)
(*                                                                         *)
(* The routes (routes/video_routes.py, routes/ai_routes.py) import the     *)
(* flat modules backend/youtube_processor.py, backend/facebook_processor.py*)
(* backend/transcript_processor.py and backend/ai_orchestrator.py; these   *)
(* are modelled as the running code.  The package variants under           *)
(* backend/video_processing, backend/ai_models and backend/utils are       *)
(* modelled next to them where a property names them (prefix VP_ / SM_).   *)
(*                                                                         *)
(* Conventions                                                             *)
(*   - times are integers in milliseconds (1.0 s = 1000);                  *)
(*   - a Python string is a sequence of one-character strings;             *)
(*   - Python None is NoneVal, a dict is a record with kind = "dict".      *)
(* The module holds several specifications, one per component; each leaves *)
(* the variables of the other components at their idle values.             *)
(***************************************************************************)
EXTENDS Integers, Sequences, FiniteSets, TLC

VARIABLES
  \* transcript acquisition pipeline (one processing request)
  platform,      \* "youtube" | "facebook" | "none" before the request starts
  pc,            \* position of the request: idle, piped, ytdlp, audio, finish, done, raised
  instIdx,       \* index into PIPED_INSTANCES of the next caption-proxy call
  calls,         \* the tier invocations so far, in order: [tier, inst, ret]
  transcript,    \* what extract_transcript returned (NoneVal until then)
  tierDir,       \* per tier: state of the temp directory it made: none, live, deleted
  envelope,      \* the processing result handed to the route
  videoInfo,     \* the metadata get_video_info returned (NoneVal before the request)
  \* subtitle parser
  doc,           \* the subtitle document to parse: its format and its cues
  parsed,        \* the dict the parser returned (NoneVal before the call)
  parser,        \* which parser was called: none, yt, vp, fb
  \* response sync annotator
  response,      \* the response text, as the pieces it is written from
  marked,        \* the annotated text (NoneVal before the call)
  annotator,     \* which annotator was called: none, live, sm
  \* context builder
  ctxArgs,       \* the arguments: transcript_data, user_query, max_context_length
  context,       \* the context string built (NoneVal before the call)
  builder,       \* which builder was called: none, live, am
  \* audio transcription adapter
  audio,         \* the audio file: has_key, file_size (bytes), length (ms)
  chunkData,     \* what the provider returned, per chunk (or for the whole file)
  transcription, \* what transcribe_with_groq returned (NoneVal before the call)
  chunkDir,      \* state of the temp directory for chunk files: none, live, deleted
  adapter,       \* which adapter was called: none, live, vp
  attempts,      \* the transcription methods the call on the file entered, in order
  \* AI orchestrator
  response_cache, \* self.response_cache, in insertion order: [key, response, cache_time]
  now,           \* time.time(), seconds
  qlog,          \* the process_query calls so far: [args, time, dispatched,
                 \* provider_calls, steps, raw_text, annotations, cache_before,
                 \* cache_after, result]
  \* timestamp codec
  tsSeconds,     \* the argument of format_timestamp, or None when a raw text is parsed
  tsText,        \* the timestamp string: written by a formatter, or the raw input
  tsParsed,      \* what the parser returned
  codec,         \* [step, format, parse]: how far the run is and which functions ran
  \* query classifier
  clsQuery,      \* the query text
  category,      \* the category returned ("none" before the call)
  classifier,    \* which classifier was called: none, live, am
  \* concurrent queries
  thread,        \* per request thread: pc, args, cache_key, ai_response, oldest_key, result
  \* stored sessions and transcripts
  video_sessions, \* the video_sessions collection: per URL the session document or None
  transcripts,   \* the transcripts collection: per URL the transcript document or None
  requests,      \* the route calls so far: [route, url, invoked, answer, writes, stored_before, stored_after]
  \* persisted AI responses
  ai_responses,  \* the ai_responses collection: documents [cache_key, response, expires_at, ...]
  routeCalls,    \* the /query requests so far: [args, time, db_hit, saved, result]
  \* prompt assembly
  promptArgs,    \* the arguments: transcript_data, user_query, model_id, enable_sync
  prompt,        \* the prompt _build_prompt returned (NoneVal before the call)
  \* video metadata
  infoImpl,      \* which get_video_info was called: none, live, vp
  infoPc,        \* position of the call: idle, piped, ytdlp, done, raised
  infoIdx,       \* index into PIPED_INSTANCES of the next instance
  infoCalls,     \* the metadata requests so far, in order: [via, instance, o, ret]
  info,          \* what get_video_info returned (NoneVal until then)
  \* rate limiter
  limiterRequests, \* self.requests: per identifier the times of the admitted requests
  limiterNow,    \* time.time(), milliseconds
  limiterLog,    \* the is_allowed calls so far: [identifier, time, allowed, retry_after, before, after]
  \* cache manager
  cmCache,       \* self.cache: the items [key, value] in the order of the OrderedDict
  cmMetadata,    \* self.metadata: per key [timestamp, ttl, expires_at] or None
  cmNow,         \* time.time(), seconds
  cmLast,        \* the last call: [op, key, ret]
  \* splitting of large audio
  splitEnv,      \* [has_key, rate]: whether GROQ_API_KEY is set, and the bytes per millisecond of an exported chunk
  splitStack,    \* the calls that have not returned, outermost first: [fn, file, pc] or [fn, file, i]
  splitUploads,  \* the files sent to a service so far: [method, size]
  splitDeepest,  \* the largest number of nested _transcribe_large_audio_groq calls so far
  \* word timings of one segment
  wordSeg,       \* the segment as the source gives it: [text, start, end, words]
  wordImpl,      \* which code processed it: "none", "subtitles", "whisper", "vp"
  wordOut        \* the sentence made from it, None when the segment was skipped

pipeVars == <<platform, pc, instIdx, calls, transcript, tierDir, envelope, videoInfo>>

parserVars == <<doc, parsed, parser>>

syncVars == <<response, marked, annotator>>

ctxVars == <<ctxArgs, context, builder>>

audioVars == <<audio, chunkData, transcription, chunkDir, adapter, attempts>>

queryVars == <<response_cache, now, qlog>>

codecVars == <<tsSeconds, tsText, tsParsed, codec>>

classifyVars == <<clsQuery, category, classifier>>

threadVars == <<thread>>

storeVars == <<video_sessions, transcripts, requests>>

persistVars == <<ai_responses, routeCalls>>

promptVars == <<promptArgs, prompt>>

infoVars == <<infoImpl, infoPc, infoIdx, infoCalls, info>>

limiterVars == <<limiterRequests, limiterNow, limiterLog>>

managerVars == <<cmCache, cmMetadata, cmNow, cmLast>>

splitVars == <<splitEnv, splitStack, splitUploads, splitDeepest>>

wordsVars == <<wordSeg, wordImpl, wordOut>>

vars == <<pipeVars, parserVars, syncVars, ctxVars, audioVars, queryVars, codecVars, classifyVars, threadVars, storeVars, persistVars, promptVars, infoVars, limiterVars, managerVars, splitVars, wordsVars>>

\* what the actions of one component leave alone
nonPipeVars == <<parserVars, syncVars, ctxVars, audioVars, queryVars, codecVars, classifyVars, threadVars, storeVars, persistVars, promptVars, infoVars, limiterVars, managerVars, splitVars, wordsVars>>
nonParserVars == <<pipeVars, syncVars, ctxVars, audioVars, queryVars, codecVars, classifyVars, threadVars, storeVars, persistVars, promptVars, infoVars, limiterVars, managerVars, splitVars, wordsVars>>
nonSyncVars == <<pipeVars, parserVars, ctxVars, audioVars, queryVars, codecVars, classifyVars, threadVars, storeVars, persistVars, promptVars, infoVars, limiterVars, managerVars, splitVars, wordsVars>>
nonCtxVars == <<pipeVars, parserVars, syncVars, audioVars, queryVars, codecVars, classifyVars, threadVars, storeVars, persistVars, promptVars, infoVars, limiterVars, managerVars, splitVars, wordsVars>>
nonAudioVars == <<pipeVars, parserVars, syncVars, ctxVars, queryVars, codecVars, classifyVars, threadVars, storeVars, persistVars, promptVars, infoVars, limiterVars, managerVars, splitVars, wordsVars>>
nonQueryVars == <<pipeVars, parserVars, syncVars, ctxVars, audioVars, codecVars, classifyVars, threadVars, storeVars, persistVars, promptVars, infoVars, limiterVars, managerVars, splitVars, wordsVars>>
nonCodecVars == <<pipeVars, parserVars, syncVars, ctxVars, audioVars, queryVars, classifyVars, threadVars, storeVars, persistVars, promptVars, infoVars, limiterVars, managerVars, splitVars, wordsVars>>
nonClassifyVars == <<pipeVars, parserVars, syncVars, ctxVars, audioVars, queryVars, codecVars, threadVars, storeVars, persistVars, promptVars, infoVars, limiterVars, managerVars, splitVars, wordsVars>>
\* the threads share the orchestrator: its variables are theirs too
nonThreadVars == <<pipeVars, parserVars, syncVars, ctxVars, audioVars, codecVars, classifyVars, storeVars, persistVars, promptVars, infoVars, limiterVars, managerVars, splitVars, wordsVars>>
nonStoreVars == <<pipeVars, parserVars, syncVars, ctxVars, audioVars, queryVars, codecVars, classifyVars, threadVars, persistVars, promptVars, infoVars, limiterVars, managerVars, splitVars, wordsVars>>
\* the /query route works on the orchestrator: its variables are the route's too
nonPersistVars == <<pipeVars, parserVars, syncVars, ctxVars, audioVars, codecVars, classifyVars, threadVars, storeVars, promptVars, infoVars, limiterVars, managerVars, splitVars, wordsVars>>
nonPromptVars == <<pipeVars, parserVars, syncVars, ctxVars, audioVars, queryVars, codecVars, classifyVars, threadVars, storeVars, persistVars, infoVars, limiterVars, managerVars, splitVars, wordsVars>>
nonInfoVars == <<pipeVars, parserVars, syncVars, ctxVars, audioVars, queryVars, codecVars, classifyVars, threadVars, storeVars, persistVars, promptVars, limiterVars, managerVars, splitVars, wordsVars>>
nonLimiterVars == <<pipeVars, parserVars, syncVars, ctxVars, audioVars, queryVars, codecVars, classifyVars, threadVars, storeVars, persistVars, promptVars, infoVars, managerVars, splitVars, wordsVars>>
nonManagerVars == <<pipeVars, parserVars, syncVars, ctxVars, audioVars, queryVars, codecVars, classifyVars, threadVars, storeVars, persistVars, promptVars, infoVars, limiterVars, splitVars, wordsVars>>
nonSplitVars == <<pipeVars, parserVars, syncVars, ctxVars, audioVars, queryVars, codecVars, classifyVars, threadVars, storeVars, persistVars, promptVars, infoVars, limiterVars, managerVars, wordsVars>>
nonWordsVars == <<pipeVars, parserVars, syncVars, ctxVars, audioVars, queryVars, codecVars, classifyVars, threadVars, storeVars, persistVars, promptVars, infoVars, limiterVars, managerVars, splitVars>>

-----------------------------------------------------------------------------
(* Python values *)

NoneVal == [kind |-> "None"]

\* bool(x) for a value that is None or a dict with keys: a dict that has keys is
\* true whatever its 'sentences' list holds.
Truthy(x) == x.kind = "dict"

Last(s) == s[Len(s)]

-----------------------------------------------------------------------------
(* Python strings, as sequences of characters *)

Digits == <<"0", "1", "2", "3", "4", "5", "6", "7", "8", "9">>

IsDigit(c) == \E i \in 1..10 : Digits[i] = c

DigitVal(c) == CHOOSE d \in 0..9 : Digits[d + 1] = c

\* str.replace(old, new) for single characters
Replace(str, old, new) == [i \in 1..Len(str) |-> IF str[i] = old THEN new ELSE str[i]]

\* str.startswith(prefix)
StartsWith(str, prefix) ==
  Len(str) >= Len(prefix) /\ SubSeq(str, 1, Len(prefix)) = prefix

\* str.find(sub, i), 1-based; 0 when sub does not occur at or after i
RECURSIVE FindFrom(_, _, _)
FindFrom(str, sub, i) ==
  IF i + Len(sub) - 1 > Len(str) THEN 0
  ELSE IF SubSeq(str, i, i + Len(sub) - 1) = sub THEN i
  ELSE FindFrom(str, sub, i + 1)

\* sub in str
Contains(str, sub) == FindFrom(str, sub, 1) # 0

\* str.split(sep) for a non-empty separator
RECURSIVE Split(_, _)
Split(str, sep) ==
  LET i == FindFrom(str, sep, 1) IN
  IF i = 0 THEN <<str>>
  ELSE <<SubSeq(str, 1, i - 1)>> \o Split(SubSeq(str, i + Len(sep), Len(str)), sep)

Whitespace == {" ", "\t", "\r", "\n"}

RECURSIVE LStrip(_)
LStrip(str) ==
  IF str # <<>> /\ Head(str) \in Whitespace THEN LStrip(Tail(str)) ELSE str

RECURSIVE RStrip(_)
RStrip(str) ==
  IF str # <<>> /\ Last(str) \in Whitespace
    THEN RStrip(SubSeq(str, 1, Len(str) - 1)) ELSE str

\* str.strip()
Strip(str) == RStrip(LStrip(str))

\* str.split(): the maximal runs of non-whitespace characters
RECURSIVE SplitWords(_)
SplitWords(str) ==
  LET t == LStrip(str)
      RECURSIVE WordEnd(_)
      WordEnd(i) == IF i > Len(t) \/ t[i] \in Whitespace THEN i - 1 ELSE WordEnd(i + 1)
  IN IF t = <<>> THEN <<>>
     ELSE LET e == WordEnd(1)
          IN <<SubSeq(t, 1, e)>> \o SplitWords(SubSeq(t, e + 1, Len(t)))

\* sep.join(strs)
RECURSIVE Join(_, _)
Join(strs, sep) ==
  IF strs = <<>> THEN <<>>
  ELSE IF Len(strs) = 1 THEN strs[1]
  ELSE strs[1] \o sep \o Join(Tail(strs), sep)

AllDigits(str) == \A i \in 1..Len(str) : IsDigit(str[i])

\* int(str) succeeds on a non-empty string of digits (sign, blanks and
\* underscores do not occur in the strings of this model)
IntOk(str) == str # <<>> /\ AllDigits(str)

RECURSIVE IntVal(_)
IntVal(str) ==
  IF str = <<>> THEN 0
  ELSE 10 * IntVal(SubSeq(str, 1, Len(str) - 1)) + DigitVal(str[Len(str)])

\* float(str) on "digits", "digits.digits", ".digits", "digits."
FloatOk(str) ==
  LET parts == Split(str, <<".">>) IN
  /\ Len(parts) \in {1, 2}
  /\ \A i \in 1..Len(parts) : AllDigits(parts[i])
  /\ \E i \in 1..Len(parts) : parts[i] # <<>>

\* float(str) in milliseconds; digits after the third decimal are dropped
FloatMs(str) ==
  LET parts == Split(str, <<".">>)
      frac  == IF Len(parts) = 2 THEN parts[2] ELSE <<>>
      f3    == SubSeq(frac \o <<"0", "0", "0">>, 1, 3)
  IN 1000 * IntVal(parts[1]) + IntVal(f3)

\* f"{n:02d}" for n >= 0
RECURSIVE Dec(_)
Dec(n) == IF n < 10 THEN <<Digits[n + 1]>> ELSE Dec(n \div 10) \o <<Digits[(n % 10) + 1]>>

Fmt02(n) == IF n < 10 THEN <<"0">> \o Dec(n) ELSE Dec(n)

Fmt03(n) == IF n < 10 THEN <<"0", "0">> \o Dec(n)
            ELSE IF n < 100 THEN <<"0">> \o Dec(n) ELSE Dec(n)

UpperCase == <<"A", "B", "C", "D", "E", "F", "G", "H", "I", "J", "K", "L", "M",
               "N", "O", "P", "Q", "R", "S", "T", "U", "V", "W", "X", "Y", "Z">>

LowerCase == <<"a", "b", "c", "d", "e", "f", "g", "h", "i", "j", "k", "l", "m",
               "n", "o", "p", "q", "r", "s", "t", "u", "v", "w", "x", "y", "z">>

\* str.lower()
Lower(str) ==
  [i \in 1..Len(str) |->
     IF \E k \in 1..26 : UpperCase[k] = str[i]
       THEN LowerCase[CHOOSE k \in 1..26 : UpperCase[k] = str[i]]
       ELSE str[i]]

\* the digits of a number string: blanks around it and one sign removed
\* (exponents and underscores do not occur in the strings of this model)
Magnitude(str) ==
  LET t == Strip(str) IN
  IF t # <<>> /\ t[1] \in {"+", "-"} THEN Tail(t) ELSE t

Sign(str) == LET t == Strip(str) IN IF t # <<>> /\ t[1] = "-" THEN -1 ELSE 1

\* int(str): whether it succeeds, and its value
PyIntOk(str) == IntOk(Magnitude(str))

PyInt(str) == Sign(str) * IntVal(Magnitude(str))

\* float(str) also reads nan, inf and infinity in any case
FloatWords ==
  {<<"n", "a", "n">>, <<"i", "n", "f">>, <<"i", "n", "f", "i", "n", "i", "t", "y">>}

PyFloatOk(str) == FloatOk(Magnitude(str)) \/ Lower(Magnitude(str)) \in FloatWords

\* float(str): a number of milliseconds, or nan / inf
PyFloat(str) ==
  IF FloatOk(Magnitude(str))
    THEN [kind |-> "float", ms |-> Sign(str) * FloatMs(Magnitude(str))]
  ELSE IF Lower(Magnitude(str)) = <<"n", "a", "n">> THEN [kind |-> "nan", ms |-> 0]
  ELSE [kind |-> "inf", ms |-> 0]

\* n + x for a float x that may be nan or inf
PlusFloat(n, x) == IF x.kind = "float" THEN [x EXCEPT !.ms = @ + n] ELSE x


-----------------------------------------------------------------------------
(* Bounds and program constants *)

\* most sentences a subtitle file or a transcription yields in the pipeline model
MaxSegs == 2

\* len(config.PIPED_INSTANCES)
NumPiped == 3

\* config.MAX_VIDEO_DURATION, seconds
MAX_VIDEO_DURATION == 72000

-----------------------------------------------------------------------------
(* Transcript acquisition pipeline: the tiers                               *)
(*                                                                          *)
(* A tier is a function of what its collaborators (HTTP, the yt-dlp         *)
(* subprocess, the file system, the transcription adapter) do; that is the  *)
(* tier's outcome o = [ev, nseg].  A tier yields [raised, ret, dir]:        *)
(* whether an exception leaves it, what it returns, and the state of the    *)
(* temporary directory it made.                                             *)

PipedOutcomes ==
  {[ev |-> e, nseg |-> 0] :
     e \in {"info_none", "no_subtitles", "download_raises", "download_non200"}}
  \cup {[ev |-> "parsed", nseg |-> k] : k \in 0..MaxSegs}

YtdlpOutcomes ==
  {[ev |-> e, nseg |-> 0] :
     e \in {"mkdtemp_raises", "timeout", "nonzero_exit", "no_subtitle_file",
            "read_raises"}}
  \cup {[ev |-> "parsed", nseg |-> k] : k \in 0..MaxSegs}

AudioOutcomes ==
  {[ev |-> e, nseg |-> 0] :
     e \in {"mkdtemp_raises", "timeout", "nonzero_exit", "missing_or_empty_file",
            "transcribe_none"}}
  \cup {[ev |-> "transcribed", nseg |-> k] : k \in 0..MaxSegs}

\* the dict a parser or the transcription adapter returns, then tagged by the tier
Dict(n, tag) == [kind |-> "dict", nseg |-> n, source |-> tag]

Returned(v, d) == [raised |-> FALSE, ret |-> v, dir |-> d]

Raised(d) == [raised |-> TRUE, ret |-> NoneVal, dir |-> d]

\* utils.helpers.cleanup_temp_files(temp_dir): removes the directory
cleanup_temp_files(d) == "deleted"

\* YouTubeProcessor.extract_transcript_piped: no temporary directory; every
\* exception is caught and turned into None.
ExtractTranscriptPiped(o) ==
  CASE o.ev \in {"info_none", "no_subtitles"} -> Returned(NoneVal, "none")
    [] o.ev = "download_raises" -> Returned(NoneVal, "none")
    [] o.ev = "download_non200" -> Returned(NoneVal, "none")
    [] o.ev = "parsed" ->
         LET transcript_data == Dict(o.nseg, "untagged") IN
         IF Truthy(transcript_data)
           THEN Returned([transcript_data EXCEPT !.source = "piped_subtitles"], "none")
           ELSE Returned(NoneVal, "none")

\* an extract_transcript_ytdlp whose except clause is missing
ExtractTranscriptYtdlp_NoCatch(o) ==
  CASE o.ev = "mkdtemp_raises" -> Raised("none")
    [] o.ev \in {"timeout", "read_raises"} -> Raised("live")
    [] o.ev \in {"nonzero_exit", "no_subtitle_file"} -> Returned(NoneVal, "deleted")
    [] o.ev = "parsed" ->
         Returned(Dict(o.nseg, "yt_dlp_auto_sub"), "deleted")

\* YouTubeProcessor.extract_transcript_ytdlp
ExtractTranscriptYtdlp(o) ==
  CASE o.ev = "mkdtemp_raises" -> Returned(NoneVal, "none")
    [] o.ev \in {"timeout", "read_raises"} ->
         \* the except clause returns None; temp_dir is not cleaned up there
         Returned(NoneVal, "live")
    [] o.ev \in {"nonzero_exit", "no_subtitle_file"} ->
         Returned(NoneVal, cleanup_temp_files("live"))
    [] o.ev = "parsed" ->
         LET transcript_data == Dict(o.nseg, "untagged") IN
         IF Truthy(transcript_data)
           THEN Returned([transcript_data EXCEPT !.source = "yt_dlp_auto_sub"],
                         cleanup_temp_files("live"))
           ELSE Returned(NoneVal, cleanup_temp_files("live"))

\* YouTubeProcessor.download_and_transcribe_audio
DownloadAndTranscribeAudio(o) ==
  CASE o.ev = "mkdtemp_raises" -> Returned(NoneVal, "none")
    [] o.ev = "timeout" -> Returned(NoneVal, "live")
    [] o.ev \in {"nonzero_exit", "missing_or_empty_file"} ->
         Returned(NoneVal, cleanup_temp_files("live"))
    [] o.ev = "transcribe_none" -> Returned(NoneVal, cleanup_temp_files("live"))
    [] o.ev = "transcribed" ->
         LET transcript_data == Dict(o.nseg, "untagged") IN
         IF Truthy(transcript_data)
           THEN Returned([transcript_data EXCEPT !.source = "groq_whisper"],
                         cleanup_temp_files("live"))
           ELSE Returned(transcript_data, cleanup_temp_files("live"))

\* FacebookProcessor.extract_transcript_ytdlp
FB_ExtractTranscriptYtdlp(o) ==
  CASE o.ev = "mkdtemp_raises" -> Returned(NoneVal, "none")
    [] o.ev \in {"timeout", "read_raises"} -> Returned(NoneVal, "live")
    [] o.ev \in {"nonzero_exit", "no_subtitle_file"} ->
         Returned(NoneVal, cleanup_temp_files("live"))
    [] o.ev = "parsed" ->
         LET transcript_data == Dict(o.nseg, "untagged") IN
         IF Truthy(transcript_data)
           THEN Returned([transcript_data EXCEPT !.source = "yt_dlp_facebook"],
                         cleanup_temp_files("live"))
           ELSE Returned(NoneVal, cleanup_temp_files("live"))

\* FacebookProcessor.download_and_transcribe_audio
FB_DownloadAndTranscribeAudio(o) ==
  CASE o.ev = "mkdtemp_raises" -> Returned(NoneVal, "none")
    [] o.ev = "timeout" -> Returned(NoneVal, "live")
    [] o.ev \in {"nonzero_exit", "missing_or_empty_file"} ->
         Returned(NoneVal, cleanup_temp_files("live"))
    [] o.ev = "transcribe_none" -> Returned(NoneVal, cleanup_temp_files("live"))
    [] o.ev = "transcribed" ->
         LET transcript_data == Dict(o.nseg, "untagged") IN
         IF Truthy(transcript_data)
           THEN Returned([transcript_data EXCEPT !.source = "groq_whisper_facebook"],
                         cleanup_temp_files("live"))
           ELSE Returned(transcript_data, cleanup_temp_files("live"))

-----------------------------------------------------------------------------
(* Transcript acquisition pipeline: the fallback and the processing request *)

Tiers == {"piped", "ytdlp", "audio"}

\* an extract_transcript whose caption-proxy loop does not return on success
extract_transcript_NoStop(at, inst, ret) ==
  CASE at = "piped" ->
         IF inst < NumPiped THEN [pc |-> "piped", inst |-> inst + 1]
         ELSE [pc |-> "ytdlp", inst |-> inst]
    [] at = "ytdlp" ->
         IF Truthy(ret) THEN [pc |-> "finish", inst |-> inst]
         ELSE [pc |-> "audio", inst |-> inst]
    [] at = "audio" -> [pc |-> "finish", inst |-> inst]

\* YouTubeProcessor.extract_transcript: where the fallback goes after the tier
\* at position `at` (caption-proxy instance `inst`) returned `ret`
extract_transcript(at, inst, ret) ==
  CASE at = "piped" ->
         IF Truthy(ret) THEN [pc |-> "finish", inst |-> inst]
         ELSE IF inst < NumPiped THEN [pc |-> "piped", inst |-> inst + 1]
         ELSE [pc |-> "ytdlp", inst |-> inst]
    [] at = "ytdlp" ->
         IF Truthy(ret) THEN [pc |-> "finish", inst |-> inst]
         ELSE [pc |-> "audio", inst |-> inst]
    [] at = "audio" -> [pc |-> "finish", inst |-> inst]

\* FacebookProcessor.extract_transcript
FB_extract_transcript(at, inst, ret) ==
  CASE at = "ytdlp" ->
         IF Truthy(ret) THEN [pc |-> "finish", inst |-> inst]
         ELSE [pc |-> "audio", inst |-> inst]
    [] at = "audio" -> [pc |-> "finish", inst |-> inst]

Durations == {0, MAX_VIDEO_DURATION, MAX_VIDEO_DURATION + 1}

VideoInfos == {NoneVal} \cup {[kind |-> "dict", duration |-> d] : d \in Durations}

Failure(msg) ==
  [kind |-> "dict", success |-> FALSE, error |-> msg, transcript |-> NoneVal,
   transcript_available |-> FALSE]

\* the result dict of process_youtube_video / process_facebook_video after
\* extract_transcript returned transcript_data
Processed(transcript_data) ==
  [kind |-> "dict", success |-> TRUE, error |-> "", transcript |-> transcript_data,
   transcript_available |-> Truthy(transcript_data)]

\* process_youtube_video up to the call of extract_transcript
ProcessYoutubeVideo(urlOk, video_info) ==
  /\ pc = "idle"
  /\ platform' = "youtube"
  /\ IF ~urlOk
       THEN pc' = "done" /\ envelope' = Failure("Invalid YouTube URL")
     ELSE IF ~Truthy(video_info)
       THEN pc' = "done" /\ envelope' = Failure("Could not fetch video information")
     ELSE IF video_info.duration > MAX_VIDEO_DURATION
       THEN pc' = "done" /\ envelope' = Failure("Video too long")
     ELSE pc' = "piped" /\ envelope' = envelope
  /\ instIdx' = 1
  /\ videoInfo' = video_info
  /\ UNCHANGED <<calls, transcript, tierDir>>
  /\ UNCHANGED nonPipeVars

\* process_facebook_video up to the call of extract_transcript
ProcessFacebookVideo(video_info) ==
  /\ pc = "idle"
  /\ platform' = "facebook"
  /\ IF ~Truthy(video_info)
       THEN pc' = "done"
            /\ envelope' = Failure("Could not fetch Facebook video information")
     ELSE IF video_info.duration > MAX_VIDEO_DURATION
       THEN pc' = "done" /\ envelope' = Failure("Video too long")
     ELSE pc' = "ytdlp" /\ envelope' = envelope
  /\ videoInfo' = video_info
  /\ UNCHANGED <<instIdx, calls, transcript, tierDir>>
  /\ UNCHANGED nonPipeVars

\* one tier call made by extract_transcript, and the fallback's move after it
TierCall(tier, o, r) ==
  /\ calls' = Append(calls, [tier |-> tier, inst |-> IF tier = "piped" THEN instIdx ELSE 0,
                             ev |-> o.ev, ret |-> r.ret, raised |-> r.raised])
  /\ tierDir' = [tierDir EXCEPT ![tier] = r.dir]
  /\ IF r.raised
       THEN pc' = "raised" /\ UNCHANGED <<instIdx, transcript>>
       ELSE LET nxt == IF platform = "youtube"
                         THEN extract_transcript(tier, instIdx, r.ret)
                         ELSE FB_extract_transcript(tier, instIdx, r.ret)
            IN /\ pc' = nxt.pc
               /\ instIdx' = nxt.inst
               /\ transcript' = IF nxt.pc = "finish" /\ Truthy(r.ret)
                                  THEN r.ret ELSE NoneVal
  /\ UNCHANGED <<platform, envelope, videoInfo>>
  /\ UNCHANGED nonPipeVars

PipedTier ==
  /\ pc = "piped"
  /\ \E o \in PipedOutcomes : TierCall("piped", o, ExtractTranscriptPiped(o))

YtdlpTier ==
  /\ pc = "ytdlp"
  /\ \E o \in YtdlpOutcomes :
       TierCall("ytdlp", o, IF platform = "youtube" THEN ExtractTranscriptYtdlp(o)
                            ELSE FB_ExtractTranscriptYtdlp(o))

AudioTier ==
  /\ pc = "audio"
  /\ \E o \in AudioOutcomes :
       TierCall("audio", o, IF platform = "youtube" THEN DownloadAndTranscribeAudio(o)
                            ELSE FB_DownloadAndTranscribeAudio(o))

\* the rest of process_youtube_video / process_facebook_video
FinishProcessing ==
  /\ pc = "finish"
  /\ envelope' = Processed(transcript)
  /\ pc' = "done"
  /\ UNCHANGED <<platform, instIdx, calls, transcript, tierDir, videoInfo>>
  /\ UNCHANGED nonPipeVars

PipelineIdle ==
  /\ platform = "none"
  /\ pc = "idle"
  /\ instIdx = 1
  /\ calls = <<>>
  /\ transcript = NoneVal
  /\ tierDir = [t \in Tiers |-> "none"]
  /\ envelope = NoneVal
  /\ videoInfo = NoneVal

PipelineNext ==
  \/ \E u \in BOOLEAN, vi \in VideoInfos : ProcessYoutubeVideo(u, vi)
  \/ \E vi \in VideoInfos : ProcessFacebookVideo(vi)
  \/ PipedTier
  \/ YtdlpTier
  \/ AudioTier
  \/ FinishProcessing

\* video_processing YouTubeProcessor.get_transcript: where the fallback goes
\* after the tier at position `at` returned `ret`
VP_get_transcript(at, inst, ret) ==
  CASE at = "piped" ->
         IF Truthy(ret) THEN [pc |-> "finish", inst |-> inst]
         ELSE IF inst < NumPiped THEN [pc |-> "piped", inst |-> inst + 1]
         ELSE [pc |-> "ytdlp", inst |-> inst]
    [] at = "ytdlp" ->
         IF Truthy(ret) THEN [pc |-> "finish", inst |-> inst]
         ELSE [pc |-> "audio", inst |-> inst]
    [] at = "audio" -> [pc |-> "finish", inst |-> inst]

\* video_processing FacebookProcessor.get_transcript
VP_FB_get_transcript(at, inst, ret) ==
  CASE at = "ytdlp" ->
         IF Truthy(ret) THEN [pc |-> "finish", inst |-> inst]
         ELSE [pc |-> "audio", inst |-> inst]
    [] at = "audio" -> [pc |-> "finish", inst |-> inst]

\* what a tier of the video_processing package returns: every one catches all
\* exceptions and returns None, or returns the transcript it parsed
VP_TierOutcomes ==
  {[ev |-> "none", ret |-> NoneVal]}
  \cup {[ev |-> "parsed", ret |-> Dict(n, "vp")] : n \in 0..MaxSegs}

\* video_processing YouTubeProcessor.process_video up to get_transcript
VP_ProcessVideo(urlOk, video_info) ==
  /\ pc = "idle"
  /\ platform' = "youtube"
  /\ IF ~urlOk
       THEN pc' = "done" /\ envelope' = Failure("Invalid YouTube URL")
     ELSE IF ~Truthy(video_info)
       THEN pc' = "done" /\ envelope' = Failure("Could not fetch video information")
     ELSE pc' = "piped" /\ envelope' = envelope
  /\ instIdx' = 1
  /\ videoInfo' = video_info
  /\ UNCHANGED <<calls, transcript, tierDir>>
  /\ UNCHANGED nonPipeVars

\* video_processing FacebookProcessor.process_video up to get_transcript
VP_FB_ProcessVideo(video_info) ==
  /\ pc = "idle"
  /\ platform' = "facebook"
  /\ IF ~Truthy(video_info)
       THEN pc' = "done" /\ envelope' = Failure("Could not fetch video information")
     ELSE pc' = "ytdlp" /\ envelope' = envelope
  /\ videoInfo' = video_info
  /\ UNCHANGED <<instIdx, calls, transcript, tierDir>>
  /\ UNCHANGED nonPipeVars

\* one tier call made by get_transcript, and the fallback's move after it
VP_TierCall(tier) ==
  /\ pc = tier
  /\ \E o \in VP_TierOutcomes :
       LET nxt == IF platform = "youtube"
                    THEN VP_get_transcript(tier, instIdx, o.ret)
                    ELSE VP_FB_get_transcript(tier, instIdx, o.ret)
       IN /\ calls' = Append(calls, [tier |-> tier,
                                     inst |-> IF tier = "piped" THEN instIdx ELSE 0,
                                     ev |-> o.ev, ret |-> o.ret, raised |-> FALSE])
          /\ pc' = nxt.pc
          /\ instIdx' = nxt.inst
          /\ transcript' = IF nxt.pc = "finish" THEN o.ret ELSE NoneVal
  /\ UNCHANGED <<platform, envelope, tierDir, videoInfo>>
  /\ UNCHANGED nonPipeVars

VP_PipedTier == VP_TierCall("piped")

VP_YtdlpTier == VP_TierCall("ytdlp")

VP_AudioTier == VP_TierCall("audio")

VP_PipelineNext ==
  \/ \E u \in BOOLEAN, vi \in VideoInfos : VP_ProcessVideo(u, vi)
  \/ \E vi \in VideoInfos : VP_FB_ProcessVideo(vi)
  \/ VP_PipedTier
  \/ VP_YtdlpTier
  \/ VP_AudioTier
  \/ FinishProcessing

-----------------------------------------------------------------------------
(* Subtitle parsing                                                         *)

\* most cues in a subtitle document
MaxCues == 2

Arrow == <<"-", "-", ">">>

HelloWorld == <<"H", "e", "l", "l", "o", " ", "w", "o", "r", "l", "d">>

SecondLine == <<"S", "e", "c", "o", "n", "d", " ", "l", "i", "n", "e">>

\* the text lines of one cue: none, one or two
CueTexts == {<<>>, <<HelloWorld>>, <<SecondLine>>, <<HelloWorld, SecondLine>>}

\* well-formed subtitle documents: SRT or WebVTT, cues back to back from
\* base + 1.0 s, two seconds each
Docs ==
  [fmt : {"srt", "vtt"},
   base : {0, 3723500},
   texts : UNION {[1..n -> CueTexts] : n \in 0..MaxCues}]

Cue(d, i) ==
  [start |-> d.base + 1000 + 2000 * (i - 1),
   end   |-> d.base + 3000 + 2000 * (i - 1),
   lines |-> d.texts[i]]

\* HH:MM:SS,mmm (SRT) or HH:MM:SS.mmm (WebVTT)
CueTime(ms, fmt) ==
  Fmt02(ms \div 3600000) \o <<":">> \o Fmt02((ms \div 60000) % 60) \o <<":">>
    \o Fmt02((ms \div 1000) % 60) \o <<IF fmt = "srt" THEN "," ELSE ".">>
    \o Fmt03(ms % 1000)

\* the lines of cue i: counter (SRT), timing line, text lines, blank line
CueLines(d, i) ==
  LET c == Cue(d, i) IN
  (IF d.fmt = "srt" THEN <<Dec(i)>> ELSE <<>>)
    \o <<CueTime(c.start, d.fmt) \o <<" ">> \o Arrow \o <<" ">> \o CueTime(c.end, d.fmt)>>
    \o c.lines \o <<<<>>>>

RECURSIVE DocLines(_, _)
DocLines(d, n) == IF n = 0 THEN <<>> ELSE DocLines(d, n - 1) \o CueLines(d, n)

\* the content string of the document
Content(d) ==
  Join((IF d.fmt = "vtt" THEN <<<<"W", "E", "B", "V", "T", "T">>, <<>>>> ELSE <<>>)
         \o DocLines(d, Len(d.texts)),
       <<"\n">>)

\* 0.0
Zero == [kind |-> "float", ms |-> 0]

\* YouTubeProcessor._timestamp_to_seconds; any exception gives 0.0
timestamp_to_seconds(timestamp) ==
  LET parts == Split(Replace(timestamp, ",", "."), <<":">>) IN
  IF Len(parts) = 3
    THEN IF PyIntOk(parts[1]) /\ PyIntOk(parts[2]) /\ PyFloatOk(parts[3])
           THEN PlusFloat(PyInt(parts[1]) * 3600000 + PyInt(parts[2]) * 60000,
                          PyFloat(parts[3]))
           ELSE Zero
  ELSE IF Len(parts) = 2
    THEN IF PyIntOk(parts[1]) /\ PyFloatOk(parts[2])
           THEN PlusFloat(PyInt(parts[1]) * 60000, PyFloat(parts[2]))
           ELSE Zero
  ELSE IF PyFloatOk(parts[1]) THEN PyFloat(parts[1]) ELSE Zero

\* _timestamp_to_seconds on the timestamps of a subtitle file, in milliseconds
TimestampToSeconds(timestamp) == timestamp_to_seconds(timestamp).ms

\* the dict a timing line opens
Sentence(start_time, end_time) ==
  [kind |-> "dict", text |-> <<>>, start |-> start_time, end |-> end_time,
   words |-> <<>>]

\* "Add text to current sentence"
AddText(current_sentence, line) ==
  IF Truthy(current_sentence)
    THEN IF current_sentence.text # <<>>
           THEN [current_sentence EXCEPT !.text = @ \o <<" ">> \o line]
           ELSE [current_sentence EXCEPT !.text = line]
    ELSE current_sentence

\* the word timings of one sentence: the sentence's span split evenly over its
\* words; a time is the fraction <<numerator, denominator>> of milliseconds
WordTimings(sentence) ==
  IF sentence.text = <<>> THEN sentence
  ELSE LET words == SplitWords(sentence.text)
           n == IF Len(words) > 1 THEN Len(words) ELSE 1
           span == sentence.end - sentence.start
       IN [sentence EXCEPT !.words =
             [i \in 1..Len(words) |->
                [text |-> words[i],
                 start |-> <<sentence.start * n + (i - 1) * span, n>>,
                 end |-> <<sentence.start * n + i * span, n>>]]]

\* the first whitespace-separated field after the arrow, as split(' ')[0] gives
EndField(str) == Split(Strip(str), <<" ">>)[1]

\* YouTubeProcessor._parse_subtitle_content (backend/youtube_processor.py): the
\* loop over the first n lines.  A timing line appends the open sentence
\* whatever its text; a text line is added to the open sentence twice.
RECURSIVE parse_subtitle_loop(_, _)
parse_subtitle_loop(lines, n) ==
  IF n = 0 THEN [sentences |-> <<>>, current_sentence |-> NoneVal]
  ELSE
    LET st == parse_subtitle_loop(lines, n - 1)
        line == Strip(lines[n])
    IN
    IF line = <<>> THEN st
    ELSE IF Contains(line, Arrow) THEN
      LET sentences == IF Truthy(st.current_sentence)
                         THEN Append(st.sentences, st.current_sentence)
                         ELSE st.sentences
          timestamp_parts == Split(line, Arrow)
      IN IF Len(timestamp_parts) = 2
           THEN [sentences |-> sentences,
                 current_sentence |->
                   Sentence(TimestampToSeconds(Replace(Strip(timestamp_parts[1]), ",", ".")),
                            TimestampToSeconds(Replace(EndField(timestamp_parts[2]), ",", ".")))]
           ELSE [sentences |-> sentences, current_sentence |-> st.current_sentence]
    ELSE IF IntOk(line) THEN st
    ELSE IF \/ StartsWith(line, <<"W", "E", "B", "V", "T", "T">>)
            \/ StartsWith(line, <<"N", "O", "T", "E">>)
            \/ StartsWith(line, <<"K", "i", "n", "d", ":">>)
            \/ StartsWith(line, <<"L", "a", "n", "g", "u", "a", "g", "e", ":">>)
      THEN st
    ELSE [st EXCEPT !.current_sentence = AddText(AddText(@, line), line)]

RECURSIVE SumWords(_)
SumWords(sentences) ==
  IF sentences = <<>> THEN 0
  ELSE Len(SplitWords(Head(sentences).text)) + SumWords(Tail(sentences))

parse_subtitle_content(content, language) ==
  LET lines == Split(content, <<"\n">>)
      st == parse_subtitle_loop(lines, Len(lines))
      flushed == IF Truthy(st.current_sentence) /\ st.current_sentence.text # <<>>
                   THEN Append(st.sentences, st.current_sentence)
                   ELSE st.sentences
      sentences == [i \in 1..Len(flushed) |-> WordTimings(flushed[i])]
  IN [kind |-> "dict", language |-> language, sentences |-> sentences,
      total_duration |-> IF sentences # <<>> THEN Last(sentences).end ELSE 0,
      word_count |-> SumWords(sentences),
      sentence_count |-> Len(sentences)]

\* the dict a timing line opens in the video_processing parsers
Segment(start, end) ==
  [kind |-> "dict", start |-> start, end |-> end, text |-> <<>>, words |-> <<>>]

\* current_segment and current_segment.get('text')
HasText(current_segment) == Truthy(current_segment) /\ current_segment.text # <<>>

\* the first field of str.split()
FirstWord(str) == SplitWords(str)[1]

\* YouTubeProcessor._parse_subtitle_content (backend/video_processing): the loop
RECURSIVE VP_parse_subtitle_loop(_, _)
VP_parse_subtitle_loop(lines, n) ==
  IF n = 0 THEN [segments |-> <<>>, current_segment |-> NoneVal]
  ELSE
    LET st == VP_parse_subtitle_loop(lines, n - 1)
        line == Strip(lines[n])
    IN
    IF line = <<>> \/ IntOk(line) THEN st
    ELSE IF Contains(line, Arrow) THEN
      LET segments == IF HasText(st.current_segment)
                        THEN Append(st.segments, st.current_segment)
                        ELSE st.segments
          parts == Split(line, Arrow)
      IN IF Len(parts) = 2
           THEN [segments |-> segments,
                 current_segment |->
                   Segment(TimestampToSeconds(Strip(parts[1])),
                           TimestampToSeconds(FirstWord(Strip(parts[2]))))]
           ELSE [segments |-> segments, current_segment |-> st.current_segment]
    ELSE IF \/ StartsWith(line, <<"W", "E", "B", "V", "T", "T">>)
            \/ StartsWith(line, <<"N", "O", "T", "E">>)
      THEN st
    ELSE [st EXCEPT !.current_segment = AddText(@, line)]

VP_parse_subtitle_content(content) ==
  LET lines == Split(content, <<"\n">>)
      st == VP_parse_subtitle_loop(lines, Len(lines))
      flushed == IF HasText(st.current_segment)
                   THEN Append(st.segments, st.current_segment)
                   ELSE st.segments
      segments == [i \in 1..Len(flushed) |-> WordTimings(flushed[i])]
  IN [kind |-> "dict", segments |-> segments,
      duration |-> IF segments # <<>> THEN Last(segments).end ELSE 0,
      language |-> "en"]

\* FacebookProcessor._parse_srt (backend/video_processing): the loop; no header
\* is skipped and the end time is the whole field after the arrow
RECURSIVE FB_parse_srt_loop(_, _)
FB_parse_srt_loop(lines, n) ==
  IF n = 0 THEN [segments |-> <<>>, current_segment |-> NoneVal]
  ELSE
    LET st == FB_parse_srt_loop(lines, n - 1)
        line == Strip(lines[n])
    IN
    IF line = <<>> \/ IntOk(line) THEN st
    ELSE IF Contains(line, Arrow) THEN
      LET segments == IF HasText(st.current_segment)
                        THEN Append(st.segments, st.current_segment)
                        ELSE st.segments
          parts == Split(line, Arrow)
      IN IF Len(parts) = 2
           THEN [segments |-> segments,
                 current_segment |->
                   Segment(TimestampToSeconds(Strip(parts[1])),
                           TimestampToSeconds(Strip(parts[2])))]
           ELSE [segments |-> segments, current_segment |-> st.current_segment]
    ELSE [st EXCEPT !.current_segment = AddText(@, line)]

FB_parse_srt(content) ==
  LET lines == Split(content, <<"\n">>)
      st == FB_parse_srt_loop(lines, Len(lines))
      segments == IF HasText(st.current_segment)
                    THEN Append(st.segments, st.current_segment)
                    ELSE st.segments
  IN [kind |-> "dict", segments |-> segments,
      duration |-> IF segments # <<>> THEN Last(segments).end ELSE 0,
      language |-> "en"]

\* one call of a parser on the document
ParseYoutube ==
  /\ parser = "none"
  /\ parser' = "yt"
  /\ parsed' = parse_subtitle_content(Content(doc), "en")
  /\ UNCHANGED doc
  /\ UNCHANGED nonParserVars

VP_ParseYoutube ==
  /\ parser = "none"
  /\ parser' = "vp"
  /\ parsed' = VP_parse_subtitle_content(Content(doc))
  /\ UNCHANGED doc
  /\ UNCHANGED nonParserVars

FB_ParseSrt ==
  /\ parser = "none"
  /\ parser' = "fb"
  /\ parsed' = FB_parse_srt(Content(doc))
  /\ UNCHANGED doc
  /\ UNCHANGED nonParserVars

ParserIdle ==
  /\ doc = [fmt |-> "srt", base |-> 0, texts |-> <<>>]
  /\ parsed = NoneVal
  /\ parser = "none"

ParserStart ==
  /\ doc \in Docs
  /\ parsed = NoneVal
  /\ parser = "none"

ParserNext ==
  \/ ParseYoutube
  \/ VP_ParseYoutube
  \/ FB_ParseSrt

-----------------------------------------------------------------------------
(* Response sync annotation                                                 *)

\* most pieces (text chunks and bracketed timestamps) in a response text
MaxPieces == 2

\* text between timestamps; the last one holds a bracket that is no timestamp
TextChunks ==
  {<<"s", "e", "e", " ">>, <<" ", "a", "n", "d", " ">>, <<"[", "1", ":", "2", "]">>}

\* a piece of a response: a text chunk, [HH:MM:SS] or [M:SS]
Pieces ==
  {[k |-> "text", s |-> t, h |-> 0, m |-> 0, sec |-> 0] : t \in TextChunks}
  \cup {[k |-> "hms", s |-> <<>>, h |-> x[1], m |-> x[2], sec |-> x[3]] :
          x \in {<<1, 2, 3>>, <<0, 5, 20>>}}
  \cup {[k |-> "ms", s |-> <<>>, h |-> 0, m |-> x[1], sec |-> x[2]] :
          x \in {<<5, 6>>, <<12, 0>>}}

Responses == UNION {[1..n -> Pieces] : n \in 0..MaxPieces}

\* the characters of one piece
PieceText(p) ==
  CASE p.k = "text" -> p.s
    [] p.k = "hms" -> <<"[">> \o Fmt02(p.h) \o <<":">> \o Fmt02(p.m) \o <<":">>
                        \o Fmt02(p.sec) \o <<"]">>
    [] p.k = "ms" -> <<"[">> \o Dec(p.m) \o <<":">> \o Fmt02(p.sec) \o <<"]">>

RECURSIVE ResponseText(_)
ResponseText(r) ==
  IF r = <<>> THEN <<>> ELSE PieceText(Head(r)) \o ResponseText(Tail(r))

CharAt(str, i, c) == i <= Len(str) /\ str[i] = c

DigitsAt(str, i, k) == i + k - 1 <= Len(str) /\ \A j \in i..(i + k - 1) : IsDigit(str[j])

NoMatch == [ok |-> FALSE, g1 |-> <<>>, g2 |-> <<>>, has3 |-> FALSE, g3 |-> <<>>, end |-> 0]

\* the pattern after group 1:  :(\d{2})(?::(\d{2}))?\]  from position j
MatchRest(str, j) ==
  IF CharAt(str, j, ":") /\ DigitsAt(str, j + 1, 2)
    THEN IF CharAt(str, j + 3, ":") /\ DigitsAt(str, j + 4, 2) /\ CharAt(str, j + 6, "]")
           THEN [ok |-> TRUE, g1 |-> <<>>, g2 |-> SubSeq(str, j + 1, j + 2),
                 has3 |-> TRUE, g3 |-> SubSeq(str, j + 4, j + 5), end |-> j + 6]
         ELSE IF CharAt(str, j + 3, "]")
           THEN [ok |-> TRUE, g1 |-> <<>>, g2 |-> SubSeq(str, j + 1, j + 2),
                 has3 |-> FALSE, g3 |-> <<>>, end |-> j + 3]
         ELSE NoMatch
    ELSE NoMatch

\* timestamp_pattern  \[(\d{1,2}):(\d{2})(?::(\d{2}))?\]  matched at position i
MatchAt(str, i) ==
  IF ~CharAt(str, i, "[") THEN NoMatch
  ELSE LET two == IF DigitsAt(str, i + 1, 2) THEN MatchRest(str, i + 3) ELSE NoMatch
           one == IF DigitsAt(str, i + 1, 1) THEN MatchRest(str, i + 2) ELSE NoMatch
       IN IF two.ok THEN [two EXCEPT !.g1 = SubSeq(str, i + 1, i + 2)]
          ELSE IF one.ok THEN [one EXCEPT !.g1 = SubSeq(str, i + 1, i + 1)]
          ELSE NoMatch

\* re.sub(timestamp_pattern, repl, str): the text from position i on, every
\* match, left to right and not overlapping, replaced by its replacement;
\* live tells which replace_timestamp is used
RECURSIVE ReSub(_, _, _)

SpanOpen ==
  <<"<", "s", "p", "a", "n", " ", "c", "l", "a", "s", "s", "=", "\"", "s",
    "y", "n", "c", "-", "t", "i", "m", "e", "s", "t", "a", "m", "p", "\"",
    " ", "d", "a", "t", "a", "-", "t", "i", "m", "e", "=", "\"">>

SpanMid ==
  <<"\"", " ", "d", "a", "t", "a", "-", "s", "y", "n", "c", "=", "\"", "t",
    "r", "u", "e", "\"", ">">>

SpanClose ==
  <<"<", "/", "s", "p", "a", "n", ">">>

\* AIOrchestrator._add_sync_markers.replace_timestamp (backend/ai_orchestrator.py)
replace_timestamp(match, original_text) ==
  LET hours == IF match.has3 THEN IntVal(match.g1) ELSE 0
      minutes == IntVal(match.g2)
      seconds == IF match.has3 THEN IntVal(match.g3) ELSE 0
      total_seconds == hours * 3600 + minutes * 60 + seconds
  IN SpanOpen \o Dec(total_seconds) \o SpanMid \o original_text \o SpanClose

SM_SpanOpen ==
  <<"<", "s", "p", "a", "n", " ", "c", "l", "a", "s", "s", "=", "\"", "t",
    "i", "m", "e", "s", "t", "a", "m", "p", "\"", " ", "d", "a", "t", "a",
    "-", "t", "i", "m", "e", "=", "\"">>

SM_SpanClick ==
  <<"\"", " ", "o", "n", "c", "l", "i", "c", "k", "=", "\"", "j", "u", "m",
    "p", "T", "o", "T", "i", "m", "e", "(">>

SM_SpanMid ==
  <<")", "\"", ">">>

\* SyncManager.add_clickable_timestamps.replace_timestamp (backend/utils)
SM_replace_timestamp(match, original) ==
  LET hours == IF match.has3 THEN IntVal(match.g1) ELSE 0
      minutes == IF ~match.has3 THEN IntVal(match.g1) ELSE IntVal(match.g2)
      seconds == IF ~match.has3 THEN IntVal(match.g2) ELSE IntVal(match.g3)
      total_seconds == hours * 3600 + minutes * 60 + seconds
  IN SM_SpanOpen \o Dec(total_seconds) \o SM_SpanClick \o Dec(total_seconds)
       \o SM_SpanMid \o original \o SpanClose

ReSub(str, i, live) ==
  IF i > Len(str) THEN <<>>
  ELSE LET match == MatchAt(str, i) IN
       IF match.ok
         THEN (IF live THEN replace_timestamp(match, SubSeq(str, i, match.end))
               ELSE SM_replace_timestamp(match, SubSeq(str, i, match.end)))
                \o ReSub(str, match.end + 1, live)
         ELSE <<str[i]>> \o ReSub(str, i + 1, live)

\* AIOrchestrator._add_sync_markers
add_sync_markers(response_text) == ReSub(response_text, 1, TRUE)

\* SyncManager.add_clickable_timestamps
SM_add_clickable_timestamps(text) == ReSub(text, 1, FALSE)

AddSyncMarkers ==
  /\ annotator = "none"
  /\ annotator' = "live"
  /\ marked' = add_sync_markers(ResponseText(response))
  /\ UNCHANGED response
  /\ UNCHANGED nonSyncVars

SM_AddClickableTimestamps ==
  /\ annotator = "none"
  /\ annotator' = "sm"
  /\ marked' = SM_add_clickable_timestamps(ResponseText(response))
  /\ UNCHANGED response
  /\ UNCHANGED nonSyncVars

SyncIdle ==
  /\ response = <<>>
  /\ marked = NoneVal
  /\ annotator = "none"

SyncStart ==
  /\ response \in Responses
  /\ marked = NoneVal
  /\ annotator = "none"

SyncNext ==
  \/ AddSyncMarkers
  \/ SM_AddClickableTimestamps

-----------------------------------------------------------------------------
(* Context building                                                         *)

\* most sentences in the transcript handed to the context builder
MaxSentences == 3

\* sentence texts: empty, blank, short, long
SentenceTexts == {<<>>, <<" ">>, <<"H", "i">>, HelloWorld}

UserQueries == {<<"W", "h", "y">>, <<"W", "h", "y", "?">>}

\* max_context_length: two small windows, whose budget a few lines fill, and
\* the window of openai/gpt-3.5-turbo
ContextLengths == {503, 508, 16384}

\* transcripts: sentences back to back from base + 1.0 s, two seconds each
ContextTranscripts ==
  {NoneVal} \cup
  {[kind |-> "dict",
    sentences |-> [i \in 1..Len(ts) |->
                     [text |-> ts[i], start |-> b + 1000 + 2000 * (i - 1),
                      end |-> b + 3000 + 2000 * (i - 1)]]] :
     ts \in UNION {[1..n -> SentenceTexts] : n \in 0..MaxSentences},
     b \in {0, 3723500}}

ContextArgs ==
  [transcript_data : ContextTranscripts, user_query : UserQueries,
   max_context_length : ContextLengths]

\* a formatter that never writes the hours field
format_timestamp_NoHours(ms) ==
  IF ms < 0 THEN <<"0", "0", ":", "0", "0">>
  ELSE Fmt02((ms % 3600000) \div 60000) \o <<":">> \o Fmt02((ms % 60000) \div 1000)

\* utils.helpers.format_timestamp, on milliseconds
format_timestamp(ms) ==
  IF ms < 0 THEN <<"0", "0", ":", "0", "0">>
  ELSE LET hours == ms \div 3600000
           minutes == (ms % 3600000) \div 60000
           secs == (ms % 60000) \div 1000
       IN IF hours > 0
            THEN Fmt02(hours) \o <<":">> \o Fmt02(minutes) \o <<":">> \o Fmt02(secs)
            ELSE Fmt02(minutes) \o <<":">> \o Fmt02(secs)

\* f"[{time_str}] {text}"
FormattedSentence(sentence) ==
  <<"[">> \o format_timestamp(sentence.start) \o <<"]", " ">> \o Strip(sentence.text)

NoTranscript ==
  <<"N", "o", " ", "t", "r", "a", "n", "s", "c", "r", "i", "p", "t", " ",
    "a", "v", "a", "i", "l", "a", "b", "l", "e", ".">>

TruncationMarker ==
  <<".", ".", ".", " ", "[", "t", "r", "a", "n", "s", "c", "r", "i", "p",
    "t", " ", "t", "r", "u", "n", "c", "a", "t", "e", "d", "]">>

\* a test that stops one character early
ExceedsLimit_AtLimit(current_length, formatted_sentence, max_transcript_chars) ==
  current_length + Len(formatted_sentence) >= max_transcript_chars

\* "Check if adding this would exceed limit"
ExceedsLimit(current_length, formatted_sentence, max_transcript_chars) ==
  current_length + Len(formatted_sentence) > max_transcript_chars

\* the loop of _prepare_context / _format_transcript over the first n sentences
RECURSIVE ContextLoop(_, _, _)
ContextLoop(sentences, n, max_transcript_chars) ==
  IF n = 0 THEN [context_parts |-> <<>>, current_length |-> 0, broke |-> FALSE]
  ELSE
    LET st == ContextLoop(sentences, n - 1, max_transcript_chars)
        text == Strip(sentences[n].text)
        formatted_sentence == FormattedSentence(sentences[n])
    IN IF st.broke \/ text = <<>> THEN st
       ELSE IF ExceedsLimit(st.current_length, formatted_sentence, max_transcript_chars)
         THEN [st EXCEPT !.context_parts = Append(@, TruncationMarker),
                         !.broke = TRUE]
       ELSE [st EXCEPT !.context_parts = Append(@, formatted_sentence),
                       !.current_length = @ + Len(formatted_sentence)]

\* a builder that keeps no room for the query
prepare_context_NoQueryRoom(transcript_data, user_query, max_context_length) ==
  IF ~Truthy(transcript_data) THEN NoTranscript
  ELSE LET sentences == transcript_data.sentences
           available_chars == max_context_length * 4
           reserved_chars == 2000
           max_transcript_chars == available_chars - reserved_chars
       IN Join(ContextLoop(sentences, Len(sentences), max_transcript_chars).context_parts,
               <<"\n">>)

\* AIOrchestrator._prepare_context (backend/ai_orchestrator.py)
prepare_context(transcript_data, user_query, max_context_length) ==
  IF ~Truthy(transcript_data) THEN NoTranscript
  ELSE LET sentences == transcript_data.sentences
           available_chars == max_context_length * 4
           reserved_chars == 2000
           max_transcript_chars == available_chars - reserved_chars - Len(user_query)
       IN Join(ContextLoop(sentences, Len(sentences), max_transcript_chars).context_parts,
               <<"\n">>)

\* AIOrchestrator._format_transcript (backend/ai_models/ai_orchestrator.py): no
\* room is kept for the query, and an empty segment list is "no transcript"
AM_format_transcript(transcript_data, max_context) ==
  LET segments == IF Truthy(transcript_data) THEN transcript_data.sentences ELSE <<>>
      max_chars == max_context * 4
      reserved_chars == 2000
      available_chars == max_chars - reserved_chars
  IN IF segments = <<>> THEN NoTranscript
     ELSE Join(ContextLoop(segments, Len(segments), available_chars).context_parts,
               <<"\n">>)

PrepareContext ==
  /\ builder = "none"
  /\ builder' = "live"
  /\ context' = prepare_context(ctxArgs.transcript_data, ctxArgs.user_query,
                                ctxArgs.max_context_length)
  /\ UNCHANGED ctxArgs
  /\ UNCHANGED nonCtxVars

AM_FormatTranscript ==
  /\ builder = "none"
  /\ builder' = "am"
  /\ context' = AM_format_transcript(ctxArgs.transcript_data, ctxArgs.max_context_length)
  /\ UNCHANGED ctxArgs
  /\ UNCHANGED nonCtxVars

ContextIdle ==
  /\ ctxArgs = NoneVal
  /\ context = NoneVal
  /\ builder = "none"

ContextStart ==
  /\ ctxArgs \in ContextArgs
  /\ context = NoneVal
  /\ builder = "none"

ContextNext ==
  \/ PrepareContext
  \/ AM_FormatTranscript

-----------------------------------------------------------------------------
(* Audio transcription                                                      *)

\* most chunks an audio file is split into
MaxChunks == 3

\* max_size = 25 * 1024 * 1024, bytes
max_size == 25 * 1024 * 1024

\* chunk_length_ms = 10 * 60 * 1000
chunk_length_ms == 10 * 60 * 1000

\* audio lengths: empty, whole chunks, and a last chunk of five minutes
AudioLengths ==
  {0} \cup {k * chunk_length_ms : k \in 1..MaxChunks}
      \cup {k * chunk_length_ms - 300000 : k \in 1..MaxChunks}

Audios ==
  [has_key : BOOLEAN, file_size : {max_size, max_size + 1}, length : AudioLengths]

\* a sentence of a verbose transcription, with its words; times local to the
\* file that was sent
LocalSentence(start, end) ==
  [text |-> <<"H", "i">>, start |-> start, end |-> end,
   words |-> <<[text |-> <<"H", "i">>, start |-> start, end |-> end]>>]

\* what one transcription call gives: None, a dict without sentences, a dict
\* with one or two sentences
Transcriptions ==
  {NoneVal,
   [kind |-> "dict", sentences |-> <<>>],
   [kind |-> "dict", sentences |-> <<LocalSentence(5000, 8000)>>],
   [kind |-> "dict", sentences |-> <<LocalSentence(5000, 8000),
                                     LocalSentence(9000, 12000)>>]}

\* what happens at one chunk: its export raises, or it is transcribed
ChunkOutcomes == {[kind |-> "raise"]} \cup Transcriptions

\* len(chunks) for chunks = [audio[i:i + chunk_length_ms] for i in range(...)]
NumChunks(length) == (length + chunk_length_ms - 1) \div chunk_length_ms

\* len(chunks[k - 1])
ChunkLen(length, k) ==
  IF length - (k - 1) * chunk_length_ms < chunk_length_ms
    THEN length - (k - 1) * chunk_length_ms
    ELSE chunk_length_ms

\* chunk_data and chunk_data.get('sentences')
HasSentences(chunk_data) == Truthy(chunk_data) /\ chunk_data.sentences # <<>>

\* "Adjust timestamps for chunk position"
Shifted(sentence, current_time) ==
  [sentence EXCEPT
     !.start = @ + current_time,
     !.end = @ + current_time,
     !.words = [i \in 1..Len(@) |->
                  [@[i] EXCEPT !.start = @ + current_time, !.end = @ + current_time]]]

\* an offset that moves only past chunks that gave sentences
AdvanceTime_OnlyWithSentences(current_time, chunk_data, chunk_len) ==
  IF HasSentences(chunk_data) THEN current_time + chunk_len ELSE current_time

\* "Update current time": current_time += len(chunk) / 1000
AdvanceTime(current_time, chunk_data, chunk_len) == current_time + chunk_len

\* _transcribe_large_audio_groq: the loop over the first n chunks; outs[k] is
\* what happens at chunk k
RECURSIVE ChunkLoop(_, _, _)
ChunkLoop(length, outs, n) ==
  IF n = 0 THEN [all_sentences |-> <<>>, current_time |-> 0, raised |-> FALSE]
  ELSE
    LET st == ChunkLoop(length, outs, n - 1)
        chunk_data == outs[n]
    IN IF st.raised THEN st
       ELSE IF chunk_data.kind = "raise" THEN [st EXCEPT !.raised = TRUE]
       ELSE [all_sentences |->
               IF HasSentences(chunk_data)
                 THEN st.all_sentences
                        \o [i \in 1..Len(chunk_data.sentences) |->
                              Shifted(chunk_data.sentences[i], st.current_time)]
                 ELSE st.all_sentences,
             current_time |-> AdvanceTime(st.current_time, chunk_data, ChunkLen(length, n)),
             raised |-> FALSE]

\* TranscriptProcessor._transcribe_large_audio_groq: [ret, dir]
transcribe_large_audio_groq(length, outs, language) ==
  LET st == ChunkLoop(length, outs, NumChunks(length)) IN
  IF st.raised THEN [ret |-> NoneVal, dir |-> cleanup_temp_files("live")]
  ELSE [ret |-> IF st.all_sentences # <<>>
                  THEN [kind |-> "dict", language |-> language,
                        sentences |-> st.all_sentences,
                        total_duration |-> st.current_time,
                        word_count |-> SumWords(st.all_sentences),
                        sentence_count |-> Len(st.all_sentences),
                        api_used |-> "groq_whisper_chunked",
                        chunks_processed |-> NumChunks(length)]
                  ELSE NoneVal,
        dir |-> cleanup_temp_files("live")]

\* the transcription methods of TranscriptProcessor, in the order in which one
\* hands over to the next: transcribe_with_groq, transcribe_with_whisper_api,
\* transcribe_with_whisper_local, transcribe_with_speech_recognition
Methods == <<"groq_whisper", "openai_whisper", "local_whisper", "speech_recognition">>

\* the one sentence transcribe_with_speech_recognition builds: 0 to processing_time
SpeechSentence(processing_time) ==
  [text |-> <<"H", "i">>, start |-> 0, end |-> processing_time, words |-> <<>>]

\* what happens inside one method: its provider call raises (network, quota,
\* format, missing library or key), or the provider answers and the answer is
\* structured (_process_whisper_response, which catches its own exceptions)
MethodOutcomes(k) ==
  IF k < 4 THEN {[kind |-> "raise"]} \cup (Transcriptions \ {NoneVal})
  ELSE {[kind |-> "raise"], [kind |-> "dict", sentences |-> <<SpeechSentence(2000)>>]}

\* what happens inside each of the methods, for one file
MethodRuns ==
  {outs \in [1..Len(Methods) -> UNION {MethodOutcomes(k) : k \in 1..Len(Methods)}] :
     \A k \in 1..Len(Methods) : outs[k] \in MethodOutcomes(k)}

\* TranscriptProcessor._process_whisper_response for a response with
\* segments, each with text and word times
process_whisper_response(whisper_response, language) ==
  LET sentences == whisper_response.sentences IN
  [kind |-> "dict", language |-> language, sentences |-> sentences,
   total_duration |-> IF sentences # <<>> THEN sentences[Len(sentences)].end ELSE 0,
   word_count |-> SumWords(sentences),
   sentence_count |-> Len(sentences)]

\* the transcript_data method k returns when its provider answered o
MethodResult(k, o, language) ==
  IF k < Len(Methods)
    THEN process_whisper_response(o, language) @@ [api_used |-> Methods[k]]
    ELSE [kind |-> "dict", language |-> language, sentences |-> o.sentences,
          total_duration |-> o.sentences[1].end,
          word_count |-> SumWords(o.sentences), sentence_count |-> 1,
          api_used |-> Methods[k]]

\* the chain from method k on: each method's except clauses return the next
\* method's result; transcribe_with_speech_recognition returns None.
\* [ret, raw, attempts]: the value returned, the provider answer it was made
\* from, the methods entered
RECURSIVE transcribe_from(_, _, _)
transcribe_from(k, outs, language) ==
  IF outs[k].kind # "raise"
    THEN [ret |-> MethodResult(k, outs[k], language), raw |-> outs[k],
          attempts |-> <<Methods[k]>>]
  ELSE IF k = Len(Methods)
    THEN [ret |-> NoneVal, raw |-> NoneVal, attempts |-> <<Methods[k]>>]
  ELSE LET rest == transcribe_from(k + 1, outs, language)
       IN [rest EXCEPT !.attempts = <<Methods[k]>> \o @]

\* TranscriptProcessor.transcribe_with_groq (backend/transcript_processor.py).
\* Without a key the local model transcribes the whole file; a file over
\* max_size is split; otherwise the provider is called, and when that call
\* raises the next method is entered.
\* Here every exported chunk fits max_size, so a chunk is not split again;
\* the splitting component follows the calls when one does not.
TranscribeWithGroq ==
  /\ adapter = "none"
  /\ adapter' = "live"
  /\ IF audio.has_key /\ audio.file_size > max_size
       THEN \E outs \in [1..NumChunks(audio.length) -> ChunkOutcomes] :
              LET r == transcribe_large_audio_groq(audio.length, outs, "en") IN
              /\ chunkData' = outs
              /\ transcription' = r.ret
              /\ chunkDir' = r.dir
              /\ attempts' = <<>>
       ELSE \E outs \in MethodRuns :
              LET r == transcribe_from(IF audio.has_key THEN 1 ELSE 3, outs, "en") IN
              /\ chunkData' = <<r.raw>>
              /\ transcription' = r.ret
              /\ chunkDir' = chunkDir
              /\ attempts' = r.attempts
  /\ UNCHANGED audio
  /\ UNCHANGED nonAudioVars

\* TranscriptProcessor._transcribe_large_file (backend/video_processing)
VP_transcribe_large_file ==
  [kind |-> "dict", success |-> FALSE, error |-> "File too large (max 25MB)"]

\* TranscriptProcessor.transcribe_with_groq (backend/video_processing)
VP_TranscribeWithGroq ==
  /\ adapter = "none"
  /\ adapter' = "vp"
  /\ IF ~audio.has_key
       THEN /\ transcription' = [kind |-> "dict", success |-> FALSE,
                                 error |-> "Groq API key missing"]
            /\ chunkData' = <<>>
            /\ attempts' = <<>>
     ELSE IF audio.file_size > max_size
       THEN /\ transcription' = VP_transcribe_large_file
            /\ chunkData' = <<>>
            /\ attempts' = <<>>
     ELSE \E t \in Transcriptions :
            /\ chunkData' = <<t>>
            /\ attempts' = <<"groq_whisper">>
            /\ transcription' =
                 IF Truthy(t)
                   THEN [kind |-> "dict", success |-> TRUE, segments |-> t.sentences]
                   ELSE [kind |-> "dict", success |-> FALSE, error |-> "Groq API error"]
  /\ UNCHANGED <<audio, chunkDir>>
  /\ UNCHANGED nonAudioVars

AudioIdle ==
  /\ audio = NoneVal
  /\ chunkData = <<>>
  /\ transcription = NoneVal
  /\ chunkDir = "none"
  /\ adapter = "none"
  /\ attempts = <<>>

AudioStart ==
  /\ audio \in Audios
  /\ chunkData = <<>>
  /\ transcription = NoneVal
  /\ chunkDir = "none"
  /\ adapter = "none"
  /\ attempts = <<>>

AudioNext ==
  \/ TranscribeWithGroq
  \/ VP_TranscribeWithGroq

-----------------------------------------------------------------------------
(* AI orchestration: process_query and its response cache                   *)

\* most process_query calls in a run
MaxCalls == 2

\* the clock stops here
MaxClock == 450

\* self.cache_max_size
cache_max_size == 100

\* self.cache_ttl, seconds
cache_ttl == 300

\* session_id: "" is None (session_id or 'no_session')
SessionIds == {"", "s1"}

\* self.available_models (two of them): provider, context_length,
\* supports_timestamps
available_models ==
  [m \in {"gemini-2.0-flash", "mistralai/mistral-7b-instruct"} |->
     IF m = "gemini-2.0-flash"
       THEN [provider |-> "google_gemini", context_length |-> 1000000,
             supports_timestamps |-> TRUE]
       ELSE [provider |-> "openrouter", context_length |-> 32000,
             supports_timestamps |-> FALSE]]

ModelIds == DOMAIN available_models \cup {"no-such-model"}

QueryTranscript(text) ==
  [kind |-> "dict", sentences |-> <<[text |-> text, start |-> 1000, end |-> 3000]>>]

\* a request, and the requests that differ from it in one argument
BaseQuery ==
  [session_id |-> "s1", model_id |-> "gemini-2.0-flash",
   user_query |-> <<"W", "h", "y">>, transcript_data |-> QueryTranscript(HelloWorld),
   enable_sync |-> TRUE]

QueryArgs ==
  {[BaseQuery EXCEPT !.session_id = x] : x \in SessionIds}
  \cup {[BaseQuery EXCEPT !.model_id = x] : x \in ModelIds}
  \cup {[BaseQuery EXCEPT !.user_query = x] : x \in UserQueries}
  \cup {[BaseQuery EXCEPT !.transcript_data = QueryTranscript(x)] :
          x \in {HelloWorld, SecondLine}}
  \cup {[BaseQuery EXCEPT !.enable_sync = x] : x \in BOOLEAN}

\* what the provider API does when called: an answer text, or an error
ProviderOutcomes ==
  {[ok |-> TRUE,
    text |-> ResponseText(<<[k |-> "text", s |-> <<"s", "e", "e", " ">>, h |-> 0,
                             m |-> 0, sec |-> 0],
                            [k |-> "hms", s |-> <<>>, h |-> 1, m |-> 2, sec |-> 3]>>)],
   [ok |-> TRUE, text |-> <<"n", "o">>],
   [ok |-> FALSE, text |-> <<>>]}

\* _generate_cache_key: md5 of session:model:query:json(first 10 sentences); the
\* digest and the joined string are one-to-one on the values used here
generate_cache_key(session_id, model_id, query, transcript_data) ==
  <<IF session_id = "" THEN "no_session" ELSE session_id, model_id, query,
    SubSeq(transcript_data.sentences, 1,
           IF Len(transcript_data.sentences) < 10
             THEN Len(transcript_data.sentences) ELSE 10)>>

\* position of cache_key in the cache, 0 when absent
CacheIndex(cache, cache_key) ==
  IF \E i \in 1..Len(cache) : cache[i].key = cache_key
    THEN CHOOSE i \in 1..Len(cache) : cache[i].key = cache_key
    ELSE 0

\* del self.response_cache[key]
RemoveAt(cache, i) == SubSeq(cache, 1, i - 1) \o SubSeq(cache, i + 1, Len(cache))

\* a lookup that never finds anything
get_cached_response_Miss(cache, cache_key, t) == [response |-> NoneVal, cache |-> cache]

\* a lookup that returns the entry it finds whatever its age
get_cached_response_NoExpiry(cache, cache_key, t) ==
  LET i == CacheIndex(cache, cache_key) IN
  IF i # 0 THEN [response |-> cache[i].response, cache |-> cache]
  ELSE [response |-> NoneVal, cache |-> cache]

\* _get_cached_response at time t: the response found (or None) and the cache
\* after the lookup
get_cached_response(cache, cache_key, t) ==
  LET i == CacheIndex(cache, cache_key) IN
  IF i # 0
    THEN IF t - cache[i].cache_time < cache_ttl
           THEN [response |-> cache[i].response, cache |-> cache]
           ELSE [response |-> NoneVal, cache |-> RemoveAt(cache, i)]
    ELSE [response |-> NoneVal, cache |-> cache]

\* an eviction that takes the entry inserted last
NewestIndex(cache) == Len(cache)

\* min(self.response_cache.keys(), key = cache_time): the first of the oldest
OldestIndex(cache) ==
  CHOOSE i \in 1..Len(cache) :
    /\ \A j \in 1..Len(cache) : cache[i].cache_time <= cache[j].cache_time
    /\ \A j \in 1..(i - 1) : cache[j].cache_time > cache[i].cache_time

\* _cache_response at time t
cache_response(cache, cache_key, ai_response, t) ==
  LET limited == IF Len(cache) >= cache_max_size
                   THEN RemoveAt(cache, OldestIndex(cache)) ELSE cache
      entry == [key |-> cache_key, response |-> ai_response, cache_time |-> t]
      i == CacheIndex(limited, cache_key)
  IN IF i # 0 THEN [limited EXCEPT ![i] = entry] ELSE Append(limited, entry)

\* a response dict; text, error, model, provider, cached and metadata are absent
\* when empty, FALSE or None.  model is the id the dict names, under the key
\* 'model' or 'model_id'; available_models is the list of ids it carries
ResponseDict(success, text, error, metadata) ==
  [kind |-> "dict", success |-> success, text |-> text, error |-> error,
   model |-> "", provider |-> "", available_models |-> {},
   cached |-> FALSE, metadata |-> metadata]

\* _call_gemini / _call_openrouter, the API doing o: both catch every exception
CallProvider(provider, model_id, o) ==
  IF o.ok
    THEN [ResponseDict(TRUE, o.text, "", NoneVal)
            EXCEPT !.model = model_id, !.provider = provider]
    ELSE [ResponseDict(FALSE, <<>>, "provider error", NoneVal)
            EXCEPT !.model = model_id, !.provider = provider]

\* a dispatch that goes on to the other provider when the first call fails
Dispatch_Retry(model_config, model_id, o) ==
  LET other == IF model_config.provider = "google_gemini"
                 THEN "openrouter" ELSE "google_gemini"
  IN IF o.ok
       THEN [response |-> CallProvider(model_config.provider, model_id, o),
             calls |-> <<model_config.provider>>]
       ELSE [response |-> CallProvider(other, model_id, o),
             calls |-> <<model_config.provider, other>>]

\* the provider branch of process_query: the response and the adapter calls made
Dispatch(model_config, model_id, o) ==
  [response |-> CallProvider(model_config.provider, model_id, o),
   calls |-> <<model_config.provider>>]

\* the steps of a query, as the spec names them
QueryStates ==
  <<"Validating", "CacheCheck", "ContextPrep", "Dispatch", "PostProcess", "Done">>

\* process_query after a cache miss, from "# Validate model" on: [result,
\* cache, dispatched, provider_calls, steps, raw_text, annotations]; steps are
\* the steps entered, raw_text is the text the provider gave, annotations the
\* number of _add_sync_markers calls
answer_query(cache, cache_key, a, o, t) ==
  IF a.model_id \notin DOMAIN available_models
    THEN [result |-> [ResponseDict(FALSE, <<>>, "Model is not available", NoneVal)
                        EXCEPT !.model = a.model_id],
          cache |-> cache, dispatched |-> "none", provider_calls |-> <<>>,
          steps |-> <<"Validating">>, raw_text |-> <<>>, annotations |-> 0]
  ELSE
    LET model_config == available_models[a.model_id]
        prompt_context == prepare_context(a.transcript_data, a.user_query,
                                   model_config.context_length)
        sent == Dispatch(model_config, a.model_id, o)
    IN IF ~sent.response.success
         THEN [result |-> sent.response,
               cache |-> cache, dispatched |-> model_config.provider,
               provider_calls |-> sent.calls,
               steps |-> <<"Validating", "ContextPrep", "Dispatch">>,
               raw_text |-> sent.response.text, annotations |-> 0]
         ELSE
           LET metadata == [kind |-> "dict", model_used |-> a.model_id,
                            provider |-> model_config.provider,
                            sync_enabled |-> a.enable_sync,
                            sync_capable |-> model_config.supports_timestamps
                                               /\ a.enable_sync,
                            session_id |-> a.session_id, cached |-> FALSE,
                            context_chars |-> Len(prompt_context)]
               marking == a.enable_sync /\ model_config.supports_timestamps
               text == IF marking
                         THEN add_sync_markers(sent.response.text)
                         ELSE sent.response.text
               ai_response == [sent.response EXCEPT !.text = text,
                                                    !.metadata = metadata]
           IN [result |-> ai_response,
               cache |-> cache_response(cache, cache_key, ai_response, t),
               dispatched |-> model_config.provider,
               provider_calls |-> sent.calls,
               steps |-> <<"Validating", "ContextPrep", "Dispatch", "PostProcess", "Done">>,
               raw_text |-> sent.response.text,
               annotations |-> IF marking THEN 1 ELSE 0]

\* a cache hit that annotates the cached text before it returns it
cache_hit_Reannotate(lookup, cache_key) ==
  LET cached_response == [lookup.response EXCEPT !.cached = TRUE,
                                                 !.text = add_sync_markers(@)]
      i == CacheIndex(lookup.cache, cache_key)
  IN [result |-> cached_response,
      cache |-> [lookup.cache EXCEPT ![i].response = cached_response],
      dispatched |-> "none", provider_calls |-> <<>>,
      steps |-> <<"CacheCheck", "Done">>, raw_text |-> <<>>, annotations |-> 0]

\* the cache hit of process_query: cached_response['cached'] = True, on the
\* dict the cache holds
cache_hit(lookup, cache_key) ==
  LET cached_response == [lookup.response EXCEPT !.cached = TRUE]
      i == CacheIndex(lookup.cache, cache_key)
  IN [result |-> cached_response,
      cache |-> [lookup.cache EXCEPT ![i].response = cached_response],
      dispatched |-> "none", provider_calls |-> <<>>,
      steps |-> <<"CacheCheck", "Done">>, raw_text |-> <<>>, annotations |-> 0]

\* a process_query that validates the model id before it looks into the cache
process_query_ValidateFirst(cache, a, o, t) ==
  LET cache_key == generate_cache_key(a.session_id, a.model_id, a.user_query,
                                      a.transcript_data)
  IN IF a.model_id \notin DOMAIN available_models
       THEN answer_query(cache, cache_key, a, o, t)
     ELSE LET lookup == get_cached_response(cache, cache_key, t) IN
          IF Truthy(lookup.response)
            THEN [cache_hit(lookup, cache_key) EXCEPT !.steps = <<"Validating">> \o @]
            ELSE LET r == answer_query(lookup.cache, cache_key, a, o, t)
                 IN [r EXCEPT !.steps = <<"Validating", "CacheCheck">> \o Tail(@)]

\* AIOrchestrator.process_query at time t, the provider doing o when called:
\* [result, cache, dispatched, provider_calls, steps, raw_text, annotations]
process_query(cache, a, o, t) ==
  LET cache_key == generate_cache_key(a.session_id, a.model_id, a.user_query,
                                      a.transcript_data)
      lookup == get_cached_response(cache, cache_key, t)
  IN IF Truthy(lookup.response)
       THEN cache_hit(lookup, cache_key)
       ELSE LET r == answer_query(lookup.cache, cache_key, a, o, t)
            IN [r EXCEPT !.steps = <<"CacheCheck">> \o @]

\* one process_query call, its arguments and the provider's behaviour drawn from
\* the given sets
Query(args, outcomes) ==
  /\ Len(qlog) < MaxCalls
  /\ \E a \in args, o \in outcomes :
       LET r == process_query(response_cache, a, o, now) IN
       /\ response_cache' = r.cache
       /\ qlog' = Append(qlog, [args |-> a, time |-> now, dispatched |-> r.dispatched,
                                provider_calls |-> r.provider_calls,
                                steps |-> r.steps, raw_text |-> r.raw_text,
                                annotations |-> r.annotations,
                                cache_before |-> response_cache,
                                cache_after |-> r.cache, result |-> r.result])
  /\ UNCHANGED now
  /\ UNCHANGED nonQueryVars

ProcessQuery == Query(QueryArgs, ProviderOutcomes)

\* time passes
Tick ==
  /\ now + 150 <= MaxClock
  /\ now' = now + 150
  /\ UNCHANGED <<response_cache, qlog>>
  /\ UNCHANGED nonQueryVars

QueryIdle ==
  /\ response_cache = <<>>
  /\ now = 0
  /\ qlog = <<>>

\* the entry of the k-th of the earlier answers to another session's queries,
\* stored one a second, the cache_max_size-th as the run starts
PriorEntry(k) ==
  [key |-> generate_cache_key("s0", "gemini-2.0-flash", <<"q">> \o Dec(k),
                              QueryTranscript(HelloWorld)),
   response |-> [ResponseDict(TRUE, <<"o", "k">>, "", NoneVal)
                   EXCEPT !.model = "gemini-2.0-flash", !.provider = "google_gemini"],
   cache_time |-> k - cache_max_size]

\* the cache one entry short of full, and full
FilledCache == [k \in 1..(cache_max_size - 1) |-> PriorEntry(k)]

FullCache == [k \in 1..cache_max_size |-> PriorEntry(k)]

\* the requests made of the nearly full cache: three different keys
FullCacheArgs ==
  {BaseQuery, [BaseQuery EXCEPT !.model_id = "mistralai/mistral-7b-instruct"],
   [BaseQuery EXCEPT !.user_query = <<"W", "h", "y", "?">>]}

FullCacheOutcomes == {o \in ProviderOutcomes : o.text \in {<<>>, <<"n", "o">>}}

ProcessQueryFullCache == Query(FullCacheArgs, FullCacheOutcomes)

\* an orchestrator one entry short of a full cache
CacheStart ==
  /\ response_cache = FilledCache
  /\ now = 0
  /\ qlog = <<>>

QueryNext ==
  \/ ProcessQuery
  \/ Tick

\* a transcript of eleven sentences, one a second: the first with the text
\* first, the eleventh with the text last
LongTranscript(first, last) ==
  [kind |-> "dict",
   sentences |-> [k \in 1..11 |->
                    [text |-> IF k = 1 THEN first ELSE IF k = 11 THEN last
                                                  ELSE <<"H", "i">>,
                     start |-> 1000 * k, end |-> 1000 * k + 1000]]]

\* requests about three transcripts that differ in the first or in the
\* eleventh sentence only
LongQueryArgs ==
  {[BaseQuery EXCEPT !.transcript_data = x] :
     x \in {LongTranscript(HelloWorld, HelloWorld),
            LongTranscript(HelloWorld, SecondLine),
            LongTranscript(SecondLine, HelloWorld)}}

ProcessLongQuery == Query(LongQueryArgs, ProviderOutcomes)

LongNext == ProcessLongQuery \/ Tick

CacheNext == ProcessQueryFullCache \/ Tick

(***************************************************************************)
(* Timestamp codec: utils.helpers.format_timestamp / parse_timestamp,      *)
(* SyncManager.format_timestamp / parse_timestamp and                      *)
(* YouTubeProcessor._timestamp_to_seconds.  A float of seconds is          *)
(* [kind |-> "float", ms |-> milliseconds]; nan and inf are their own      *)
(* kinds.                                                                  *)
(***************************************************************************)
MaxSeconds == 359999

Float(ms) == [kind |-> "float", ms |-> ms]

Str(str) == [kind |-> "str", str |-> str]

\* arguments of format_timestamp: both forms, whole and fractional, negative
SecondsValues ==
  {Float(sec * 1000 + f) :
     sec \in {0, 1, 59, 60, 61, 3599, 3600, 3661, 35999, 36000, MaxSeconds},
     f \in {0, 500, 999}}
  \cup {Float(-1), Float(-500), Float(-5000)}

\* arguments of the parsers that no formatter wrote
RawTexts ==
  {Str(<<>>), Str(<<"a", "b", "c">>), Str(<<"1", ":", "2", ":", "3", ":", "4">>),
   Str(<<"1", "2", ":", "a", "b">>), Str(<<"n", "a", "n">>), Str(<<":">>),
   Str(<<"7">>), Str(<<"1", ":", "3", "0">>), Str(<<"[", "5", ":", "0", "6", "]">>),
   Str(<<"1", ":", "0", "2", ":", "0", "3">>),
   Str(<<"0", "0", ":", "0", "1", ",", "5", "0", "0">>),
   Str(<<"1", ":", "2", ":", "3", ":", "4", ":", "5">>)}

\* utils.helpers.parse_timestamp; any exception gives 0.0
parse_timestamp(timestamp_str) ==
  LET parts == Split(timestamp_str, <<":">>) IN
  IF Len(parts) = 3
    THEN IF PyIntOk(parts[1]) /\ PyIntOk(parts[2]) /\ PyFloatOk(parts[3])
           THEN PlusFloat(PyInt(parts[1]) * 3600000 + PyInt(parts[2]) * 60000,
                          PyFloat(parts[3]))
           ELSE Zero
  ELSE IF Len(parts) = 2
    THEN IF PyIntOk(parts[1]) /\ PyFloatOk(parts[2])
           THEN PlusFloat(PyInt(parts[1]) * 60000, PyFloat(parts[2]))
           ELSE Zero
  ELSE IF Len(parts) = 1
    THEN IF PyFloatOk(parts[1]) THEN PyFloat(parts[1]) ELSE Zero
  ELSE Zero

\* SyncManager.format_timestamp, on milliseconds
SM_format_timestamp(ms) ==
  IF ms < 0 THEN <<"0", "0", ":", "0", "0">>
  ELSE LET hours == ms \div 3600000
           minutes == (ms % 3600000) \div 60000
           secs == (ms % 60000) \div 1000
       IN IF hours > 0
            THEN Fmt02(hours) \o <<":">> \o Fmt02(minutes) \o <<":">> \o Fmt02(secs)
            ELSE Fmt02(minutes) \o <<":">> \o Fmt02(secs)

\* SyncManager.parse_timestamp; any exception gives 0.0
SM_parse_timestamp(timestamp_str) ==
  LET parts == Split(Replace(Replace(timestamp_str, "[", ""), "]", ""), <<":">>) IN
  IF Len(parts) = 3
    THEN IF PyIntOk(parts[1]) /\ PyIntOk(parts[2]) /\ PyFloatOk(parts[3])
           THEN PlusFloat(PyInt(parts[1]) * 3600000 + PyInt(parts[2]) * 60000,
                          PyFloat(parts[3]))
           ELSE Zero
  ELSE IF Len(parts) = 2
    THEN IF PyIntOk(parts[1]) /\ PyFloatOk(parts[2])
           THEN PlusFloat(PyInt(parts[1]) * 60000, PyFloat(parts[2]))
           ELSE Zero
  ELSE IF PyFloatOk(parts[1]) THEN PyFloat(parts[1]) ELSE Zero

Formatted(impl, text) ==
  /\ codec.step = "start"
  /\ tsSeconds # NoneVal
  /\ tsText' = Str(text)
  /\ codec' = [codec EXCEPT !.step = "formatted", !.format = impl]
  /\ UNCHANGED <<tsSeconds, tsParsed>>
  /\ UNCHANGED nonCodecVars

Parsed(impl, value) ==
  /\ codec.step \in {"start", "formatted"}
  /\ tsText # NoneVal
  /\ tsParsed' = value
  /\ codec' = [codec EXCEPT !.step = "parsed", !.parse = impl]
  /\ UNCHANGED <<tsSeconds, tsText>>
  /\ UNCHANGED nonCodecVars

FormatTimestamp == Formatted("helpers", format_timestamp(tsSeconds.ms))

SM_FormatTimestamp == Formatted("sync_manager", SM_format_timestamp(tsSeconds.ms))

ParseTimestamp == Parsed("helpers", parse_timestamp(tsText.str))

SM_ParseTimestamp == Parsed("sync_manager", SM_parse_timestamp(tsText.str))

TimestampToSecondsCall == Parsed("youtube_processor", timestamp_to_seconds(tsText.str))

CodecIdle ==
  /\ tsSeconds = NoneVal
  /\ tsText = NoneVal
  /\ tsParsed = NoneVal
  /\ codec = [step |-> "idle", format |-> "none", parse |-> "none"]

CodecStart ==
  /\ \/ tsSeconds \in SecondsValues /\ tsText = NoneVal
     \/ tsSeconds = NoneVal /\ tsText \in RawTexts
  /\ tsParsed = NoneVal
  /\ codec = [step |-> "start", format |-> "none", parse |-> "none"]

CodecNext ==
  \/ FormatTimestamp
  \/ SM_FormatTimestamp
  \/ ParseTimestamp
  \/ SM_ParseTimestamp
  \/ TimestampToSecondsCall

(***************************************************************************)
(* Query classification: QueryClassifier.classify, which process_query,    *)
(* _build_prompt and recommend_models_for_query call, and                  *)
(* AIOrchestrator._classify_query of the ai_models package.  A character   *)
(* outside ASCII is written as its code point, "U+0905".                   *)
(***************************************************************************)
MaxWords == 2

\* the keyword lists of QueryClassifier.classify, by category
Keywords ==
  [summary |->
     {<<"s", "u", "m", "m", "a", "r", "y">>,
      <<"s", "u", "m", "m", "a", "r", "i", "z", "e">>,
      <<"o", "v", "e", "r", "v", "i", "e", "w">>,
      <<"b", "r", "i", "e", "f">>},
   word_analysis |->
     {<<"w", "o", "r", "d">>,
      <<"v", "o", "c", "a", "b", "u", "l", "a", "r", "y">>,
      <<"p", "r", "o", "n", "u", "n", "c", "i", "a", "t", "i", "o", "n">>,
      <<"m", "e", "a", "n", "i", "n", "g">>,
      <<"U+0905", "U+0930", "U+094D", "U+0925">>,
      <<"U+0909", "U+091A", "U+094D", "U+091A", "U+093E", "U+0930", "U+0923">>},
   quiz |->
     {<<"q", "u", "i", "z">>,
      <<"q", "u", "e", "s", "t", "i", "o", "n">>,
      <<"t", "e", "s", "t">>,
      <<"e", "x", "a", "m">>,
      <<"U+092A", "U+094D", "U+0930", "U+0936", "U+094D", "U+0928">>},
   translation |->
     {<<"t", "r", "a", "n", "s", "l", "a", "t", "e">>,
      <<"h", "i", "n", "d", "i">>,
      <<"e", "n", "g", "l", "i", "s", "h">>,
      <<"l", "a", "n", "g", "u", "a", "g", "e">>,
      <<"U+092D", "U+093E", "U+0937", "U+093E">>,
      <<"U+0905", "U+0928", "U+0941", "U+0935", "U+093E", "U+0926">>},
   explanation |->
     {<<"e", "x", "p", "l", "a", "i", "n">>,
      <<"w", "h", "a", "t", " ", "i", "s">>,
      <<"h", "o", "w", " ", "t", "o">>,
      <<"w", "h", "y">>,
      <<"U+0915", "U+0948", "U+0938", "U+0947">>,
      <<"U+0915", "U+094D", "U+092F", "U+094B", "U+0902">>},
   coding |->
     {<<"c", "o", "d", "e">>,
      <<"p", "r", "o", "g", "r", "a", "m">>,
      <<"f", "u", "n", "c", "t", "i", "o", "n">>,
      <<"a", "l", "g", "o", "r", "i", "t", "h", "m">>,
      <<"U+0915", "U+094B", "U+0921">>}]

\* the keyword lists of _classify_query, by category
AM_Keywords ==
  [summary |->
     {<<"s", "u", "m", "m", "a", "r", "y">>,
      <<"s", "u", "m", "m", "a", "r", "i", "z", "e">>,
      <<"o", "v", "e", "r", "v", "i", "e", "w">>},
   word_analysis |->
     {<<"w", "o", "r", "d">>,
      <<"v", "o", "c", "a", "b", "u", "l", "a", "r", "y">>,
      <<"p", "r", "o", "n", "u", "n", "c", "i", "a", "t", "i", "o", "n">>,
      <<"m", "e", "a", "n", "i", "n", "g">>},
   sentence_analysis |->
     {<<"s", "e", "n", "t", "e", "n", "c", "e">>,
      <<"p", "h", "r", "a", "s", "e">>,
      <<"b", "r", "e", "a", "k", "d", "o", "w", "n">>},
   translation |->
     {<<"t", "r", "a", "n", "s", "l", "a", "t", "e">>,
      <<"h", "i", "n", "d", "i">>,
      <<"t", "r", "a", "n", "s", "l", "a", "t", "i", "o", "n">>},
   explanation |->
     {<<"e", "x", "p", "l", "a", "i", "n">>,
      <<"w", "h", "a", "t", " ", "i", "s">>,
      <<"h", "o", "w">>},
   quiz |->
     {<<"q", "u", "i", "z">>,
      <<"q", "u", "e", "s", "t", "i", "o", "n">>,
      <<"t", "e", "s", "t">>}]

\* any(word in query_lower for word in words)
AnyIn(words, query_lower) == \E word \in words : Contains(query_lower, word)

\* QueryClassifier.classify
classify(query) ==
  LET query_lower == Lower(query) IN
  IF AnyIn(Keywords.summary, query_lower) THEN "summary"
  ELSE IF AnyIn(Keywords.word_analysis, query_lower) THEN "word_analysis"
  ELSE IF AnyIn(Keywords.quiz, query_lower) THEN "quiz"
  ELSE IF AnyIn(Keywords.translation, query_lower) THEN "translation"
  ELSE IF AnyIn(Keywords.explanation, query_lower) THEN "explanation"
  ELSE IF AnyIn(Keywords.coding, query_lower) THEN "coding"
  ELSE "general"

\* ai_models AIOrchestrator._classify_query
AM_classify_query(query) ==
  LET query_lower == Lower(query) IN
  IF AnyIn(AM_Keywords.summary, query_lower) THEN "summary"
  ELSE IF AnyIn(AM_Keywords.word_analysis, query_lower) THEN "word_analysis"
  ELSE IF AnyIn(AM_Keywords.sentence_analysis, query_lower) THEN "sentence_analysis"
  ELSE IF AnyIn(AM_Keywords.translation, query_lower) THEN "translation"
  ELSE IF AnyIn(AM_Keywords.explanation, query_lower) THEN "explanation"
  ELSE IF AnyIn(AM_Keywords.quiz, query_lower) THEN "quiz"
  ELSE "general"

\* the words queries are written from, in mixed case
Vocabulary ==
  {<<"S", "u", "m", "m", "a", "r", "i", "z", "e">>,
   <<"w", "o", "r", "d">>,
   <<"Q", "u", "i", "z">>,
   <<"T", "R", "A", "N", "S", "L", "A", "T", "E">>,
   <<"t", "r", "a", "n", "s", "l", "a", "t", "i", "o", "n">>,
   <<"e", "x", "p", "l", "a", "i", "n">>,
   <<"W", "h", "y">>,
   <<"c", "o", "d", "e">>,
   <<"s", "e", "n", "t", "e", "n", "c", "e">>,
   <<"h", "e", "l", "l", "o">>,
   <<"U+092A", "U+094D", "U+0930", "U+0936", "U+094D", "U+0928">>}

RECURSIVE Phrases(_)

\* the sequences of n words
Phrases(n) ==
  IF n = 1 THEN {<<w>> : w \in Vocabulary}
  ELSE UNION {{<<w>> \o p : w \in Vocabulary} : p \in Phrases(n - 1)}

\* queries of up to MaxWords words, and the query of the documented example
ClassifierQueries ==
  {Join(p, <<" ">>) : p \in UNION {Phrases(n) : n \in 1..MaxWords}}
  \cup {<<"e", "x", "p", "l", "a", "i", "n", " ", "t", "h", "e", " ", "t",
         "r", "a", "n", "s", "l", "a", "t", "i", "o", "n", " ", "o", "f",
         " ", "t", "h", "i", "s", " ", "w", "o", "r", "d">>}

Classify ==
  /\ classifier = "none"
  /\ category' = classify(clsQuery)
  /\ classifier' = "live"
  /\ UNCHANGED clsQuery
  /\ UNCHANGED nonClassifyVars

AM_ClassifyQuery ==
  /\ classifier = "none"
  /\ category' = AM_classify_query(clsQuery)
  /\ classifier' = "am"
  /\ UNCHANGED clsQuery
  /\ UNCHANGED nonClassifyVars

ClassifyIdle == clsQuery = <<>> /\ category = "none" /\ classifier = "idle"

ClassifyStart == clsQuery \in ClassifierQueries /\ category = "none" /\ classifier = "none"

ClassifyNext == Classify \/ AM_ClassifyQuery

(***************************************************************************)
(* Concurrent queries: app.run(threaded = True) serves each request on its *)
(* own thread, and all threads call process_query on the one module-level  *)
(* orchestrator.  No lock guards self.response_cache, so the threads       *)
(* interleave between the dictionary operations of _get_cached_response    *)
(* and _cache_response; one dictionary operation is atomic.                *)
(***************************************************************************)
Threads == {"t1", "t2"}

NoKey == <<>>

\* a thread about to call process_query
ThreadAt(a) ==
  [pc |-> "lookup", args |-> a,
   cache_key |-> generate_cache_key(a.session_id, a.model_id, a.user_query,
                                    a.transcript_data),
   ai_response |-> NoneVal, oldest_key |-> NoKey, result |-> NoneVal]

\* process_query up to the provider call: the cache lookup
ThreadLookup(t) ==
  /\ thread[t].pc = "lookup"
  /\ LET lookup == get_cached_response(response_cache, thread[t].cache_key, now) IN
     /\ response_cache' = lookup.cache
     /\ thread' = IF Truthy(lookup.response)
                    THEN [thread EXCEPT ![t].pc = "done",
                                        ![t].result = [lookup.response EXCEPT !.cached = TRUE]]
                    ELSE [thread EXCEPT ![t].pc = "provider"]
  /\ UNCHANGED <<now, qlog>>
  /\ UNCHANGED nonThreadVars

\* the provider call and what follows it up to _cache_response
ThreadCallProvider(t) ==
  /\ thread[t].pc = "provider"
  /\ \E o \in FullCacheOutcomes :
       LET sent == Dispatch(available_models[thread[t].args.model_id],
                            thread[t].args.model_id, o)
       IN thread' = IF sent.response.success
                      THEN [thread EXCEPT ![t].pc = "check_size",
                                          ![t].ai_response = sent.response]
                      ELSE [thread EXCEPT ![t].pc = "done",
                                          ![t].result = sent.response]
  /\ UNCHANGED queryVars
  /\ UNCHANGED nonThreadVars

\* _cache_response: if len(self.response_cache) >= self.cache_max_size
ThreadCheckSize(t) ==
  /\ thread[t].pc = "check_size"
  /\ thread' = [thread EXCEPT ![t].pc = IF Len(response_cache) >= cache_max_size
                                          THEN "find_oldest" ELSE "insert"]
  /\ UNCHANGED queryVars
  /\ UNCHANGED nonThreadVars

\* oldest_key = min(self.response_cache.keys(), key = cache_time)
ThreadFindOldest(t) ==
  /\ thread[t].pc = "find_oldest"
  /\ thread' = [thread EXCEPT ![t].pc = "evict",
                              ![t].oldest_key =
                                 response_cache[OldestIndex(response_cache)].key]
  /\ UNCHANGED queryVars
  /\ UNCHANGED nonThreadVars

\* the error dict of process_query's except clause
ExceptionDict(error, model_id) ==
  [ResponseDict(FALSE, <<>>, error, NoneVal) EXCEPT !.model = model_id]

\* del self.response_cache[oldest_key]: KeyError when the key is gone, which
\* process_query catches and returns as an error
ThreadEvict(t) ==
  /\ thread[t].pc = "evict"
  /\ LET i == CacheIndex(response_cache, thread[t].oldest_key) IN
     IF i # 0
       THEN /\ response_cache' = RemoveAt(response_cache, i)
            /\ thread' = [thread EXCEPT ![t].pc = "insert"]
       ELSE /\ thread' = [thread EXCEPT ![t].pc = "done",
                            ![t].result = ExceptionDict("KeyError",
                                                        thread[t].args.model_id)]
            /\ UNCHANGED response_cache
  /\ UNCHANGED <<now, qlog>>
  /\ UNCHANGED nonThreadVars

\* self.response_cache[cache_key] = {...}, and the return of the response
ThreadInsert(t) ==
  /\ thread[t].pc = "insert"
  /\ LET entry == [key |-> thread[t].cache_key, response |-> thread[t].ai_response,
                   cache_time |-> now]
         i == CacheIndex(response_cache, thread[t].cache_key)
     IN response_cache' = IF i # 0 THEN [response_cache EXCEPT ![i] = entry]
                          ELSE Append(response_cache, entry)
  /\ thread' = [thread EXCEPT ![t].pc = "done", ![t].result = thread[t].ai_response]
  /\ UNCHANGED <<now, qlog>>
  /\ UNCHANGED nonThreadVars

ThreadsIdle == thread = [t \in Threads |-> [pc |-> "idle"]]

ThreadsStart == thread \in [Threads -> {ThreadAt(a) : a \in FullCacheArgs}]

\* the shared cache as the threads find it
SharedCacheStart ==
  /\ response_cache \in {FilledCache, FullCache}
  /\ now = 0
  /\ qlog = <<>>

ThreadsNext ==
  \E t \in Threads :
    \/ ThreadLookup(t)
    \/ ThreadCallProvider(t)
    \/ ThreadCheckSize(t)
    \/ ThreadFindOldest(t)
    \/ ThreadEvict(t)
    \/ ThreadInsert(t)

(***************************************************************************)
(* Stored sessions: routes/video_routes.py process_video and               *)
(* reprocess_video over the video_sessions and transcripts collections of  *)
(* database/firebase_manager.py.  A session id is md5(video_url), taken    *)
(* one-to-one, so the collections are keyed by the URL here.               *)
(***************************************************************************)
MaxRequests == 3

VideoUrls == {"u1", "u2"}

\* what the acquisition pipeline returns when a route calls it: a failure, a
\* success without transcript, or a success with one of two transcripts
PipelineResults ==
  {Failure("Could not fetch video information"), Processed(NoneVal)}
  \cup {Processed(Dict(n, "piped_subtitles")) : n \in 1..MaxSegs}

\* what the datastore does with the writes of one request: each write either
\* takes effect or raises inside the manager, which catches the exception
\* and returns False
WriteOutcomes ==
  [session : BOOLEAN, transcript : BOOLEAN, mark : BOOLEAN, update : BOOLEAN]

AllWritten ==
  [session |-> TRUE, transcript |-> TRUE, mark |-> TRUE, update |-> TRUE]

\* save_video_session: the whole session document is written
save_video_session(sessions, session_id, video_url) ==
  [sessions EXCEPT ![session_id] =
     [kind |-> "dict", video_url |-> video_url, platform |-> "youtube",
      status |-> "created", transcript_available |-> FALSE]]

\* update_video_session: an update of a document that does not exist changes
\* nothing
update_video_session(sessions, session_id, status, transcript_available) ==
  IF Truthy(sessions[session_id])
    THEN [sessions EXCEPT ![session_id].status = status,
                          ![session_id].transcript_available = transcript_available]
    ELSE sessions

\* save_transcript: the whole transcript document is written
save_transcript(docs, session_id, transcript_data, source) ==
  [docs EXCEPT ![session_id] =
     [kind |-> "dict", data |-> transcript_data, source |-> source]]

\* save_transcript as the routes call it, the datastore doing w: the document
\* is written and, only after that write, the session is marked
\* {'transcript_available': True}; the returned flag is ignored by the routes
save_transcript_call(docs, sessions, session_id, transcript_data, source, w) ==
  IF ~w.transcript
    THEN [transcripts |-> docs, sessions |-> sessions, ret |-> FALSE]
    ELSE [transcripts |-> save_transcript(docs, session_id, transcript_data, source),
          sessions |-> IF w.mark /\ Truthy(sessions[session_id])
                         THEN [sessions EXCEPT ![session_id].transcript_available = TRUE]
                         ELSE sessions,
          ret |-> TRUE]

Request(route, url, invoked, answer, w) ==
  [route |-> route, url |-> url, invoked |-> invoked, answer |-> answer,
   writes |-> w,
   stored_before |-> transcripts[url], stored_after |-> transcripts'[url]]

\* POST /process for video_url, the pipeline returning result when called and
\* the datastore doing w
ProcessVideoRoute(video_url, result, w) ==
  /\ Len(requests) < MaxRequests
  /\ LET cached_session == video_sessions[video_url] IN
     IF Truthy(cached_session) /\ cached_session.status = "completed"
       THEN /\ UNCHANGED <<video_sessions, transcripts>>
            /\ requests' = Append(requests, Request("process", video_url, FALSE,
                                                    "cached", AllWritten))
     ELSE IF ~result.success
       THEN /\ UNCHANGED <<video_sessions, transcripts>>
            /\ requests' = Append(requests, Request("process", video_url, TRUE,
                                                    "failed", AllWritten))
     ELSE
       LET created == IF w.session
                        THEN save_video_session(video_sessions, video_url, video_url)
                        ELSE video_sessions
       IN
       /\ IF Truthy(result.transcript)
            THEN LET saved == save_transcript_call(transcripts, created, video_url,
                                                   result.transcript,
                                                   result.transcript.source, w)
                 IN /\ transcripts' = saved.transcripts
                    /\ video_sessions' =
                         IF w.update
                           THEN update_video_session(saved.sessions, video_url,
                                                     "completed", TRUE)
                           ELSE saved.sessions
            ELSE /\ transcripts' = transcripts
                 /\ video_sessions' = created
       /\ requests' = Append(requests, Request("process", video_url, TRUE,
                                               "processed", w))
  /\ UNCHANGED nonStoreVars

\* POST /reprocess/<session_id>, the pipeline returning result when called and
\* the datastore doing w
ReprocessVideoRoute(session_id, result, w) ==
  /\ Len(requests) < MaxRequests
  /\ LET session_data == video_sessions[session_id] IN
     IF ~Truthy(session_data)
       THEN /\ UNCHANGED <<video_sessions, transcripts>>
            /\ requests' = Append(requests, Request("reprocess", session_id, FALSE,
                                                    "not found", AllWritten))
     ELSE IF ~result.success
       THEN /\ UNCHANGED <<video_sessions, transcripts>>
            /\ requests' = Append(requests, Request("reprocess", session_id, TRUE,
                                                    "failed", AllWritten))
     ELSE
       /\ IF Truthy(result.transcript)
            THEN LET saved == save_transcript_call(transcripts, video_sessions,
                                                   session_id, result.transcript,
                                                   "piped_subtitles_reprocessed", w)
                 IN /\ transcripts' = saved.transcripts
                    /\ video_sessions' =
                         IF w.update
                           THEN update_video_session(saved.sessions, session_id,
                                                     "reprocessed", TRUE)
                           ELSE saved.sessions
            ELSE UNCHANGED <<video_sessions, transcripts>>
       /\ requests' = Append(requests, Request("reprocess", session_id, TRUE,
                                               "processed", w))
  /\ UNCHANGED nonStoreVars

\* POST /query of routes/ai_routes.py up to the transcript lookup: the answer
\* is the error the route returns, or "answered" when it goes on to the
\* orchestrator
SessionQueryRoute(session_id) ==
  /\ Len(requests) < MaxRequests
  /\ UNCHANGED <<video_sessions, transcripts>>
  /\ LET session_data == video_sessions[session_id]
         transcript_data == transcripts[session_id]
         answer == IF ~Truthy(session_data) THEN "Session not found"
                   ELSE IF ~session_data.transcript_available
                     THEN "Transcript not available for this session"
                   ELSE IF ~Truthy(transcript_data) THEN "Transcript data not found"
                   ELSE "answered"
     IN requests' = Append(requests, Request("query", session_id, FALSE, answer,
                                             AllWritten))
  /\ UNCHANGED nonStoreVars

StoreIdle ==
  /\ video_sessions = [u \in VideoUrls |-> NoneVal]
  /\ transcripts = [u \in VideoUrls |-> NoneVal]
  /\ requests = <<>>

StoreNext ==
  \/ \E u \in VideoUrls, r \in PipelineResults, w \in WriteOutcomes :
       ProcessVideoRoute(u, r, w)
  \/ \E u \in VideoUrls, r \in PipelineResults, w \in WriteOutcomes :
       ReprocessVideoRoute(u, r, w)
  \/ \E u \in VideoUrls : SessionQueryRoute(u)

(***************************************************************************)
(* Persisted AI responses: the /query route of routes/ai_routes.py over    *)
(* the ai_responses collection of database/firebase_manager.py.  The route *)
(* calls process_query on the shared orchestrator, so the orchestrator's   *)
(* variables are part of this component's state.                           *)
(***************************************************************************)
\* timedelta(hours = 24), seconds
response_lifetime == 24 * 3600

\* md5(f"{session_id}:{model}:{query}"), taken one-to-one; model = None is
\* formatted as "None"
db_cache_key(session_id, model, query) == <<session_id, model, query>>

\* FirebaseManager.save_ai_response at time t: the document replaces the one of
\* the same cache_key
save_ai_response(docs, session_id, query, ai_response, model, t) ==
  LET cache_key == db_cache_key(session_id, model, query) IN
  {d \in docs : d.cache_key # cache_key}
  \cup {[cache_key |-> cache_key, session_id |-> session_id, query |-> query,
         response |-> ai_response, model |-> model,
         expires_at |-> t + response_lifetime]}

\* FirebaseManager.get_cached_response at time t
db_get_cached_response(docs, session_id, query, model, t) ==
  LET cache_key == db_cache_key(session_id, model, query)
      found == {d \in docs : d.cache_key = cache_key}
  IN IF found # {} /\ t < (CHOOSE d \in found : TRUE).expires_at
       THEN (CHOOSE d \in found : TRUE).response
       ELSE NoneVal

\* POST /query for a session with a stored transcript, the provider doing o
QueryRoute(a, o) ==
  /\ Len(routeCalls) < MaxCalls
  /\ LET cached_response == db_get_cached_response(ai_responses, a.session_id,
                                                   a.user_query, "None", now)
     IN IF Truthy(cached_response)
          THEN /\ routeCalls' = Append(routeCalls,
                                       [args |-> a, time |-> now, db_hit |-> TRUE,
                                        saved |-> FALSE,
                                        result |-> [cached_response EXCEPT !.cached = TRUE]])
               /\ UNCHANGED <<ai_responses, response_cache>>
          ELSE LET r == process_query(response_cache, a, o, now) IN
               /\ response_cache' = r.cache
               /\ ai_responses' = IF r.result.success
                                    THEN save_ai_response(ai_responses, a.session_id,
                                                          a.user_query, r.result,
                                                          a.model_id, now)
                                    ELSE ai_responses
               /\ routeCalls' = Append(routeCalls,
                                       [args |-> a, time |-> now, db_hit |-> FALSE,
                                        saved |-> r.result.success,
                                        result |-> r.result])
  /\ UNCHANGED <<now, qlog>>
  /\ UNCHANGED nonPersistVars

\* time passes between requests
RouteTick ==
  /\ now + 150 <= MaxClock
  /\ now' = now + 150
  /\ UNCHANGED <<response_cache, qlog, ai_responses, routeCalls>>
  /\ UNCHANGED nonPersistVars

\* the requests of one session: two queries, two models
RouteArgs ==
  {[BaseQuery EXCEPT !.model_id = m, !.user_query = q] :
     m \in DOMAIN available_models, q \in UserQueries}

PersistIdle == ai_responses = {} /\ routeCalls = <<>>

PersistNext ==
  \/ \E a \in RouteArgs, o \in ProviderOutcomes : QueryRoute(a, o)
  \/ RouteTick

-----------------------------------------------------------------------------
(***************************************************************************)
(* Prompt assembly: AIOrchestrator._build_prompt.  The prompt is the       *)
(* string the f-string gives, line breaks as "\n".                         *)
(***************************************************************************)

\* str.upper()
Upper(str) ==
  [i \in 1..Len(str) |->
     IF \E k \in 1..26 : LowerCase[k] = str[i]
       THEN UpperCase[CHOOSE k \in 1..26 : LowerCase[k] = str[i]]
       ELSE str[i]]

\* the lines of a text, joined by line breaks
Lines(lines) == Join(lines, <<"\n">>)

\* system_prompt
system_prompt ==
  Lines(<<
    <<"Y", "o", "u", " ", "a", "r", "e", " ", "a", "n", " ", "A", "I", " ",
      "a", "s", "s", "i", "s", "t", "a", "n", "t", " ", "h", "e", "l", "p",
      "i", "n", "g", " ", "u", "s", "e", "r", "s", " ", "u", "n", "d", "e",
      "r", "s", "t", "a", "n", "d", " ", "v", "i", "d", "e", "o", " ", "c",
      "o", "n", "t", "e", "n", "t", ".">>,
    <<"Y", "o", "u", "r", " ", "t", "a", "s", "k", " ", "i", "s", " ", "t",
      "o", " ", "a", "n", "a", "l", "y", "z", "e", " ", "t", "h", "e", " ",
      "v", "i", "d", "e", "o", " ", "t", "r", "a", "n", "s", "c", "r", "i",
      "p", "t", " ", "a", "n", "d", " ", "r", "e", "s", "p", "o", "n", "d",
      " ", "t", "o", " ", "u", "s", "e", "r", " ", "q", "u", "e", "r", "i",
      "e", "s", " ", "a", "c", "c", "u", "r", "a", "t", "e", "l", "y", " ",
      "a", "n", "d", " ", "h", "e", "l", "p", "f", "u", "l", "l", "y", ".">>>>)

\* query_instructions
query_instructions ==
  [summary |->
    <<"P", "r", "o", "v", "i", "d", "e", " ", "a", " ", "c", "o", "m", "p",
      "r", "e", "h", "e", "n", "s", "i", "v", "e", " ", "s", "u", "m", "m",
      "a", "r", "y", " ", "w", "i", "t", "h", " ", "m", "a", "i", "n", " ",
      "p", "o", "i", "n", "t", "s", " ", "a", "n", "d", " ", "t", "i", "m",
      "e", "s", "t", "a", "m", "p", "s", " ", "f", "o", "r", " ", "s", "y",
      "n", "c", ".">>,
   word_analysis |->
    <<"B", "r", "e", "a", "k", " ", "d", "o", "w", "n", " ", "d", "i", "f",
      "f", "i", "c", "u", "l", "t", " ", "w", "o", "r", "d", "s", " ", "w",
      "i", "t", "h", " ", "p", "r", "o", "n", "u", "n", "c", "i", "a", "t",
      "i", "o", "n", " ", "(", "H", "i", "n", "d", "i", "/", "E", "n", "g",
      "l", "i", "s", "h", ")", " ", "a", "n", "d", " ", "m", "e", "a", "n",
      "i", "n", "g", "s", ".">>,
   quiz |->
    <<"C", "r", "e", "a", "t", "e", " ", "a", " ", "q", "u", "i", "z", " ",
      "w", "i", "t", "h", " ", "5", "-", "1", "0", " ", "m", "u", "l", "t",
      "i", "p", "l", "e", " ", "c", "h", "o", "i", "c", "e", " ", "q", "u",
      "e", "s", "t", "i", "o", "n", "s", " ", "b", "a", "s", "e", "d", " ",
      "o", "n", " ", "v", "i", "d", "e", "o", " ", "c", "o", "n", "t", "e",
      "n", "t", ".">>,
   translation |->
    <<"P", "r", "o", "v", "i", "d", "e", " ", "t", "r", "a", "n", "s", "l",
      "a", "t", "i", "o", "n", " ", "w", "h", "i", "l", "e", " ", "m", "a",
      "i", "n", "t", "a", "i", "n", "i", "n", "g", " ", "c", "o", "n", "t",
      "e", "x", "t", " ", "a", "n", "d", " ", "m", "e", "a", "n", "i", "n",
      "g", ".">>,
   explanation |->
    <<"E", "x", "p", "l", "a", "i", "n", " ", "c", "o", "n", "c", "e", "p",
      "t", "s", " ", "i", "n", " ", "s", "i", "m", "p", "l", "e", " ", "t",
      "e", "r", "m", "s", " ", "w", "i", "t", "h", " ", "e", "x", "a", "m",
      "p", "l", "e", "s", ".">>,
   coding |->
    <<"P", "r", "o", "v", "i", "d", "e", " ", "c", "o", "d", "e", " ", "e",
      "x", "a", "m", "p", "l", "e", "s", " ", "a", "n", "d", " ", "e", "x",
      "p", "l", "a", "n", "a", "t", "i", "o", "n", "s", ".">>,
   general |->
    <<"A", "n", "s", "w", "e", "r", " ", "t", "h", "e", " ", "q", "u", "e",
      "r", "y", " ", "b", "a", "s", "e", "d", " ", "o", "n", " ", "t", "h",
      "e", " ", "t", "r", "a", "n", "s", "c", "r", "i", "p", "t", " ", "c",
      "o", "n", "t", "e", "n", "t", ".">>]

\* the category names as strings
CategoryText ==
  [summary |-> <<"s", "u", "m", "m", "a", "r", "y">>,
   word_analysis |-> <<"w", "o", "r", "d", "_", "a", "n", "a", "l", "y", "s", "i", "s">>,
   quiz |-> <<"q", "u", "i", "z">>,
   translation |-> <<"t", "r", "a", "n", "s", "l", "a", "t", "i", "o", "n">>,
   explanation |-> <<"e", "x", "p", "l", "a", "n", "a", "t", "i", "o", "n">>,
   coding |-> <<"c", "o", "d", "i", "n", "g">>,
   general |-> <<"g", "e", "n", "e", "r", "a", "l">>]

\* the sync_instruction added "if enabled and model supports it"
SyncInstruction ==
  Lines(<<<<>>,
    <<" ", " ", " ", " ", " ", " ", " ", " ", " ", " ", " ", " ">>,
    <<"S", "Y", "N", "C", " ", "I", "N", "S", "T", "R", "U", "C", "T", "I",
      "O", "N", "S", ":">>,
    <<"-", " ", "W", "h", "e", "n", " ", "r", "e", "f", "e", "r", "r", "i",
      "n", "g", " ", "t", "o", " ", "s", "p", "e", "c", "i", "f", "i", "c",
      " ", "p", "a", "r", "t", "s", " ", "o", "f", " ", "t", "h", "e", " ",
      "v", "i", "d", "e", "o", ",", " ", "i", "n", "c", "l", "u", "d", "e",
      " ", "t", "i", "m", "e", "s", "t", "a", "m", "p", "s", " ", "i", "n",
      " ", "f", "o", "r", "m", "a", "t", " ", "[", "H", "H", ":", "M", "M",
      ":", "S", "S", "]">>,
    <<"-", " ", "F", "o", "r", " ", "w", "o", "r", "d", "-", "b", "y", "-",
      "w", "o", "r", "d", " ", "a", "n", "a", "l", "y", "s", "i", "s", ",",
      " ", "i", "n", "c", "l", "u", "d", "e", " ", "t", "i", "m", "e", "s",
      "t", "a", "m", "p", "s", " ", "f", "o", "r", " ", "e", "a", "c", "h",
      " ", "w", "o", "r", "d", " ", "i", "f", " ", "p", "o", "s", "s", "i",
      "b", "l", "e">>,
    <<"-", " ", "Y", "o", "u", "r", " ", "r", "e", "s", "p", "o", "n", "s",
      "e", " ", "s", "h", "o", "u", "l", "d", " ", "b", "e", " ", "s", "y",
      "n", "c", "-", "a", "b", "l", "e", " ", "w", "i", "t", "h", " ", "v",
      "i", "d", "e", "o", " ", "p", "l", "a", "y", "b", "a", "c", "k">>>>)

\* the lines after the instructions: the response format requirements
ResponseFormat ==
  Lines(<<<<>>, <<>>,
    <<"R", "E", "S", "P", "O", "N", "S", "E", " ", "F", "O", "R", "M", "A",
      "T", " ", "R", "E", "Q", "U", "I", "R", "E", "M", "E", "N", "T", "S",
      ":">>,
    <<"-", " ", "B", "e", " ", "c", "l", "e", "a", "r", " ", "a", "n", "d",
      " ", "c", "o", "n", "c", "i", "s", "e">>,
    <<"-", " ", "U", "s", "e", " ", "b", "u", "l", "l", "e", "t", " ", "p",
      "o", "i", "n", "t", "s", " ", "o", "r", " ", "n", "u", "m", "b", "e",
      "r", "e", "d", " ", "l", "i", "s", "t", "s", " ", "w", "h", "e", "n",
      " ", "a", "p", "p", "r", "o", "p", "r", "i", "a", "t", "e">>,
    <<"-", " ", "R", "e", "f", "e", "r", "e", "n", "c", "e", " ", "s", "p",
      "e", "c", "i", "f", "i", "c", " ", "p", "a", "r", "t", "s", " ", "o",
      "f", " ", "t", "h", "e", " ", "t", "r", "a", "n", "s", "c", "r", "i",
      "p", "t", " ", "w", "h", "e", "n", " ", "p", "o", "s", "s", "i", "b",
      "l", "e">>,
    <<"-", " ", "I", "n", "c", "l", "u", "d", "e", " ", "t", "i", "m", "e",
      "s", "t", "a", "m", "p", "s", " ", "[", "H", "H", ":", "M", "M", ":",
      "S", "S", "]", " ", "f", "o", "r", " ", "s", "y", "n", "c", " ", "c",
      "a", "p", "a", "b", "i", "l", "i", "t", "y">>,
    <<"-", " ", "I", "f", " ", "a", "n", "a", "l", "y", "z", "i", "n", "g",
      " ", "w", "o", "r", "d", "s", " ", "o", "r", " ", "p", "h", "r", "a",
      "s", "e", "s", ",", " ", "p", "r", "o", "v", "i", "d", "e", " ", "d",
      "e", "t", "a", "i", "l", "e", "d", " ", "b", "r", "e", "a", "k", "d",
      "o", "w", "n">>,
    <<>>,
    <<"R", "E", "S", "P", "O", "N", "S", "E", ":">>>>)

\* AIOrchestrator._build_prompt
build_prompt(prompt_context, user_query, model_config, enable_sync) ==
  LET query_type == classify(user_query)
      instruction == query_instructions[query_type]
      sync_instruction == IF enable_sync /\ model_config.supports_timestamps
                            THEN SyncInstruction ELSE <<>>
  IN system_prompt \o <<"\n", "\n">>
       \o <<"V", "I", "D", "E", "O", " ", "T", "R", "A", "N", "S", "C", "R", "I", "P",
  "T", ":">> \o <<"\n">>
       \o prompt_context \o <<"\n", "\n">>
       \o <<"U", "S", "E", "R", " ", "Q", "U", "E", "R", "Y", ":", " ">> \o user_query \o <<"\n", "\n">>
       \o <<"Q", "U", "E", "R", "Y", " ", "T", "Y", "P", "E", ":", " ">> \o Upper(CategoryText[query_type]) \o <<"\n">>
       \o <<"S", "P", "E", "C", "I", "A", "L", " ", "I", "N", "S", "T", "R", "U", "C",
  "T", "I", "O", "N", "S", ":", " ">> \o instruction \o sync_instruction
       \o ResponseFormat

\* the queries asked: one of each category
PromptQueries ==
  {<<"S", "u", "m", "m", "a", "r", "i", "z", "e">>, <<"w", "o", "r", "d">>,
   <<"Q", "u", "i", "z">>, <<"T", "R", "A", "N", "S", "L", "A", "T", "E">>,
   <<"e", "x", "p", "l", "a", "i", "n">>, <<"c", "o", "d", "e">>,
   <<"h", "e", "l", "l", "o">>}

\* the arguments process_query hands to _build_prompt: the context of a
\* transcript, the query, the configuration of an available model, the flag
PromptArgs ==
  [transcript_data : {NoneVal, QueryTranscript(HelloWorld), QueryTranscript(SecondLine)},
   user_query : PromptQueries,
   model_id : DOMAIN available_models,
   enable_sync : BOOLEAN]

BuildPrompt ==
  /\ prompt = NoneVal
  /\ LET model_config == available_models[promptArgs.model_id]
         prompt_context == prepare_context(promptArgs.transcript_data,
                                           promptArgs.user_query,
                                           model_config.context_length)
     IN prompt' = [kind |-> "str",
                   str |-> build_prompt(prompt_context, promptArgs.user_query,
                                        model_config, promptArgs.enable_sync)]
  /\ UNCHANGED promptArgs
  /\ UNCHANGED nonPromptVars

PromptIdle ==
  /\ promptArgs = NoneVal
  /\ prompt = NoneVal

PromptStart ==
  /\ promptArgs \in PromptArgs
  /\ prompt = NoneVal

PromptNext == BuildPrompt

-----------------------------------------------------------------------------
(***************************************************************************)
(* Video metadata: YouTubeProcessor.get_video_info over                    *)
(* config.PIPED_INSTANCES, in backend/youtube_processor.py and in          *)
(* backend/video_processing/youtube_processor.py.  An instance is its      *)
(* index in the list.                                                      *)
(***************************************************************************)

\* what one instance does when asked for /streams/<id>: session.get raises
\* (connection error, timeout), a status other than 200, a 200 whose body is
\* no JSON, a 200 whose JSON is no object, a 200 with a JSON object that holds
\* the duration or lacks it
InstanceOutcomes ==
  {[ev |-> "get_raises", status |-> 0, duration |-> 0],
   [ev |-> "status", status |-> 404, duration |-> 0],
   [ev |-> "status", status |-> 500, duration |-> 0],
   [ev |-> "no_json", status |-> 200, duration |-> 0],
   [ev |-> "no_object", status |-> 200, duration |-> 0],
   [ev |-> "object", status |-> 200, duration |-> 0],
   [ev |-> "object", status |-> 200, duration |-> 60]}

\* a get_video_info_piped that lets the exception of session.get pass
get_video_info_piped_Raising(instance, o) ==
  IF o.ev = "get_raises" THEN Raised("none")
  ELSE IF o.status = 200 /\ o.ev = "object"
    THEN Returned([kind |-> "dict", duration |-> o.duration,
                   piped_instance |-> instance, source |-> "", instance_used |-> 0],
                  "none")
  ELSE Returned(NoneVal, "none")

\* YouTubeProcessor.get_video_info_piped: data.get('duration', 0) of a 200
\* answer; response.json() and data.get raise on a body that is no JSON
\* object, and every exception is caught and gives None
get_video_info_piped(instance, o) ==
  IF o.ev = "get_raises" THEN Returned(NoneVal, "none")
  ELSE IF o.status = 200
    THEN IF o.ev = "object"
           THEN Returned([kind |-> "dict", duration |-> o.duration,
                          piped_instance |-> instance, source |-> "",
                          instance_used |-> 0],
                         "none")
           ELSE Returned(NoneVal, "none")
  ELSE Returned(NoneVal, "none")

\* get_video_info_piped of backend/video_processing: 'source': 'piped', no
\* instance in the dict
VP_get_video_info_piped(instance, o) ==
  IF o.ev = "get_raises" THEN Returned(NoneVal, "none")
  ELSE IF o.status = 200
    THEN IF o.ev = "object"
           THEN Returned([kind |-> "dict", duration |-> o.duration,
                          piped_instance |-> 0, source |-> "piped",
                          instance_used |-> 0],
                         "none")
           ELSE Returned(NoneVal, "none")
  ELSE Returned(NoneVal, "none")

\* what get_video_info returns for the dict of an instance
InfoResult(impl, instance, video_info) ==
  IF impl = "live"
    THEN [video_info EXCEPT !.source = "piped_api", !.instance_used = instance]
    ELSE video_info

\* get_video_info is called
GetVideoInfo ==
  /\ infoPc = "idle"
  /\ \E impl \in {"live", "vp"} : infoImpl' = impl
  /\ infoPc' = "piped"
  /\ infoIdx' = 1
  /\ UNCHANGED <<infoCalls, info>>
  /\ UNCHANGED nonInfoVars

\* one turn of "for instance in config.PIPED_INSTANCES"; after the last
\* instance the live method goes on to yt-dlp and the other returns None
GetVideoInfoPiped ==
  /\ infoPc = "piped"
  /\ \E o \in InstanceOutcomes :
       LET r == IF infoImpl = "live" THEN get_video_info_piped(infoIdx, o)
                                     ELSE VP_get_video_info_piped(infoIdx, o)
       IN /\ infoCalls' = Append(infoCalls, [via |-> "piped", instance |-> infoIdx,
                                             o |-> o, ret |-> r.ret])
          /\ IF r.raised
               THEN /\ infoPc' = "raised"
                    /\ UNCHANGED <<infoIdx, info>>
             ELSE IF Truthy(r.ret)
               THEN /\ info' = InfoResult(infoImpl, infoIdx, r.ret)
                    /\ infoPc' = "done"
                    /\ UNCHANGED infoIdx
             ELSE IF infoIdx < NumPiped
               THEN /\ infoIdx' = infoIdx + 1
                    /\ UNCHANGED <<infoPc, info>>
             ELSE /\ infoPc' = IF infoImpl = "live" THEN "ytdlp" ELSE "done"
                  /\ UNCHANGED <<infoIdx, info>>
  /\ UNCHANGED infoImpl
  /\ UNCHANGED nonInfoVars

\* "return self.get_video_info_ytdlp(video_id)": the subprocess gives the
\* metadata, or fails (exit code, timeout, unreadable file) and None is returned
GetVideoInfoYtdlp ==
  /\ infoPc = "ytdlp"
  /\ \E ok \in BOOLEAN :
       LET ret == IF ok THEN [kind |-> "dict", duration |-> 60, piped_instance |-> 0,
                              source |-> "yt_dlp", instance_used |-> 0]
                        ELSE NoneVal
       IN /\ infoCalls' = Append(infoCalls, [via |-> "yt_dlp", instance |-> 0,
                                             o |-> [ev |-> "subprocess",
                                                    status |-> 0, duration |-> 0],
                                             ret |-> ret])
          /\ info' = ret
  /\ infoPc' = "done"
  /\ UNCHANGED <<infoImpl, infoIdx>>
  /\ UNCHANGED nonInfoVars

InfoIdle ==
  /\ infoImpl = "none"
  /\ infoPc = "idle"
  /\ infoIdx = 0
  /\ infoCalls = <<>>
  /\ info = NoneVal

InfoNext ==
  \/ GetVideoInfo
  \/ GetVideoInfoPiped
  \/ GetVideoInfoYtdlp

-----------------------------------------------------------------------------
(***************************************************************************)
(* Rate limiter: middleware/rate_limiter.py.  time.time() is the clock in  *)
(* milliseconds; max_requests and window come from the environment         *)
(* (RATE_LIMIT_REQUESTS, RATE_LIMIT_WINDOW), here a small limit and a      *)
(* window of a few seconds.                                                *)
(***************************************************************************)

\* self.max_requests = config.RATE_LIMIT_REQUESTS
max_requests == 2

\* self.window = config.RATE_LIMIT_WINDOW, seconds
window == 2

\* most is_allowed calls in a run
MaxLimiterCalls == 4

\* the clock stops after this many half seconds
MaxLimiterTicks == 6

Identifiers == {"10.0.0.1", "10.0.0.2"}

\* [req_time for req_time in self.requests[identifier] if now - req_time < self.window]
Recent(req_times, t) == SelectSeq(req_times, LAMBDA req_time : t - req_time < window * 1000)

\* min(self.requests[identifier])
Earliest(req_times) ==
  CHOOSE r \in {req_times[k] : k \in 1..Len(req_times)} :
    \A k \in 1..Len(req_times) : r <= req_times[k]

\* an is_allowed that lets one request more through
is_allowed_OneMore(reqs, identifier, t) ==
  LET recent == Recent(reqs[identifier], t) IN
  IF Len(recent) > max_requests
    THEN [allowed |-> FALSE,
          retry_after |-> (window * 1000 - (t - Earliest(recent))) \div 1000,
          requests |-> [reqs EXCEPT ![identifier] = recent]]
    ELSE [allowed |-> TRUE, retry_after |-> 0,
          requests |-> [reqs EXCEPT ![identifier] = Append(recent, t)]]

\* RateLimiter.is_allowed at time t: (allowed, retry_after) and self.requests
\* after the call; int() of a positive float drops the fraction
is_allowed(reqs, identifier, t) ==
  LET recent == Recent(reqs[identifier], t) IN
  IF Len(recent) >= max_requests
    THEN [allowed |-> FALSE,
          retry_after |-> (window * 1000 - (t - Earliest(recent))) \div 1000,
          requests |-> [reqs EXCEPT ![identifier] = recent]]
    ELSE [allowed |-> TRUE, retry_after |-> 0,
          requests |-> [reqs EXCEPT ![identifier] = Append(recent, t)]]

\* one request of a client passes the limiter
IsAllowed ==
  /\ Len(limiterLog) < MaxLimiterCalls
  /\ \E identifier \in Identifiers :
       LET r == is_allowed(limiterRequests, identifier, limiterNow) IN
       /\ limiterRequests' = r.requests
       /\ limiterLog' = Append(limiterLog,
                               [identifier |-> identifier, time |-> limiterNow,
                                allowed |-> r.allowed, retry_after |-> r.retry_after,
                                before |-> limiterRequests[identifier],
                                after |-> r.requests[identifier]])
  /\ UNCHANGED limiterNow
  /\ UNCHANGED nonLimiterVars

\* RateLimiter.cleanup: old timestamps go (an empty list is the same as a
\* missing key of the defaultdict)
LimiterCleanup ==
  /\ limiterRequests' = [identifier \in Identifiers |->
                           Recent(limiterRequests[identifier], limiterNow)]
  /\ limiterRequests' # limiterRequests
  /\ UNCHANGED <<limiterNow, limiterLog>>
  /\ UNCHANGED nonLimiterVars

\* half a second passes
LimiterTick ==
  /\ limiterNow + 500 <= MaxLimiterTicks * 500
  /\ limiterNow' = limiterNow + 500
  /\ UNCHANGED <<limiterRequests, limiterLog>>
  /\ UNCHANGED nonLimiterVars

LimiterIdle ==
  /\ limiterRequests = [identifier \in Identifiers |-> <<>>]
  /\ limiterNow = 0
  /\ limiterLog = <<>>

LimiterNext ==
  \/ IsAllowed
  \/ LimiterCleanup
  \/ LimiterTick

-----------------------------------------------------------------------------
(***************************************************************************)
(* Cache manager: database/cache_manager.py.  self.cache (an OrderedDict)  *)
(* is the sequence of its items [key, value] in order; self.metadata maps  *)
(* a key to [timestamp, ttl, expires_at], or to None when the key is       *)
(* absent.  Times are whole seconds.                                       *)
(***************************************************************************)

\* the max_size the manager was made with
CM_max_size == 2

\* the default_ttl the manager was made with, seconds
default_ttl == 2

\* the clock stops here, seconds
MaxManagerClock == 3

ManagerKeys == {"k1", "k2", "k3"}

ManagerValues == {"v1", "v2"}

\* the ttl argument of set: None, or a number of seconds
ManagerTtls == {NoneVal, [kind |-> "int", n |-> 1]}

\* position of key in the ordered dict, 0 when absent
CM_Index(items, key) ==
  IF \E i \in 1..Len(items) : items[i].key = key
    THEN CHOOSE i \in 1..Len(items) : items[i].key = key
    ELSE 0

\* del self.cache[key]
CM_Without(items, key) == SelectSeq(items, LAMBDA item : item.key # key)

\* CacheManager.set at time t
CM_set(cache, metadata, key, value, ttl, t) ==
  LET seconds == IF ttl = NoneVal THEN default_ttl ELSE ttl.n
      \* self.cache.popitem(last=False)
      popped == IF Len(cache) >= CM_max_size THEN Tail(cache) ELSE cache
      i == CM_Index(popped, key)
      \* self.cache[key] = value, then self.cache.move_to_end(key)
      stored == Append(CM_Without(popped, key), [key |-> key, value |-> value])
  IN [cache |-> stored,
      metadata |-> [metadata EXCEPT ![key] = [kind |-> "dict", timestamp |-> t,
                                              ttl |-> seconds,
                                              expires_at |-> t + seconds]],
      ret |-> NoneVal]

\* CacheManager.get at time t
CM_get(cache, metadata, key, t) ==
  LET i == CM_Index(cache, key) IN
  IF i = 0 THEN [cache |-> cache, metadata |-> metadata, ret |-> NoneVal]
  ELSE IF Truthy(metadata[key]) /\ t > metadata[key].expires_at
    THEN [cache |-> CM_Without(cache, key),
          metadata |-> [metadata EXCEPT ![key] = NoneVal],
          ret |-> NoneVal]
  ELSE [cache |-> Append(CM_Without(cache, key), cache[i]),
        metadata |-> metadata,
        ret |-> [kind |-> "str", str |-> cache[i].value]]

\* CacheManager.delete
CM_delete(cache, metadata, key) ==
  [cache |-> CM_Without(cache, key),
   metadata |-> [metadata EXCEPT ![key] = NoneVal],
   ret |-> NoneVal]

\* CacheManager.clear
CM_clear(cache, metadata) ==
  [cache |-> <<>>, metadata |-> [key \in ManagerKeys |-> NoneVal], ret |-> NoneVal]

\* CacheManager.cleanup_expired at time t: delete(key) for every key whose
\* metadata has expired; returns their number
CM_cleanup_expired(cache, metadata, t) ==
  LET expired_keys == {key \in ManagerKeys :
                         Truthy(metadata[key]) /\ t > metadata[key].expires_at}
  IN [cache |-> SelectSeq(cache, LAMBDA item : item.key \notin expired_keys),
      metadata |-> [key \in ManagerKeys |->
                      IF key \in expired_keys THEN NoneVal ELSE metadata[key]],
      ret |-> [kind |-> "int", n |-> Cardinality(expired_keys)]]

\* the manager after a call, and what the call was
ManagerCall(op, key, r) ==
  /\ cmCache' = r.cache
  /\ cmMetadata' = r.metadata
  /\ cmLast' = [op |-> op, key |-> key, ret |-> r.ret]
  /\ UNCHANGED cmNow
  /\ UNCHANGED nonManagerVars

ManagerSet ==
  \E key \in ManagerKeys, value \in ManagerValues, ttl \in ManagerTtls :
    ManagerCall("set", key, CM_set(cmCache, cmMetadata, key, value, ttl, cmNow))

ManagerGet ==
  \E key \in ManagerKeys :
    ManagerCall("get", key, CM_get(cmCache, cmMetadata, key, cmNow))

ManagerDelete ==
  \E key \in ManagerKeys :
    ManagerCall("delete", key, CM_delete(cmCache, cmMetadata, key))

ManagerClear == ManagerCall("clear", "", CM_clear(cmCache, cmMetadata))

ManagerCleanupExpired ==
  ManagerCall("cleanup_expired", "", CM_cleanup_expired(cmCache, cmMetadata, cmNow))

\* a second passes
ManagerTick ==
  /\ cmNow < MaxManagerClock
  /\ cmNow' = cmNow + 1
  /\ UNCHANGED <<cmCache, cmMetadata, cmLast>>
  /\ UNCHANGED nonManagerVars

ManagerIdle ==
  /\ cmCache = <<>>
  /\ cmMetadata = [key \in ManagerKeys |-> NoneVal]
  /\ cmNow = 0
  /\ cmLast = NoneVal

ManagerNext ==
  \/ ManagerSet
  \/ ManagerGet
  \/ ManagerDelete
  \/ ManagerClear
  \/ ManagerCleanupExpired
  \/ ManagerTick

-----------------------------------------------------------------------------
(***************************************************************************)
(* Splitting of large audio: the calls between transcribe_with_groq and    *)
(* _transcribe_large_audio_groq of backend/transcript_processor.py, one    *)
(* step per call, export or return.  A file is [size, length]: bytes on    *)
(* disk and milliseconds of audio.  What the methods return is left out;   *)
(* the calls and the uploads are kept.                                     *)
(***************************************************************************)

\* the nesting of _transcribe_large_audio_groq calls is followed this far
MaxDepth == 3

\* bytes per millisecond of audio in an exported mp3 chunk: 128 kbit/s,
\* 320 kbit/s and 400 kbit/s.  chunk.export(chunk_file, format="mp3") names no
\* bitrate; the encoder decides.
ExportRates == {16, 40, 50}

\* os.path.getsize(chunk_file) after chunk.export
ExportSize(rate, length) == rate * length

SplitFiles == [size : {max_size, max_size + 1}, length : AudioLengths]

\* what happens inside one method for one file: the library, the key or the
\* converted file is missing (nothing is sent), the file is sent and the call
\* raises, the file is sent and the service answers
CallOutcomes == {"unavailable", "raise", "answer"}

\* the methods that send the file to a service: Groq, OpenAI, Google speech
Uploading == {"groq_whisper", "openai_whisper", "speech_recognition"}

\* the files sent by the chain from method k on for file f: a method that did
\* not answer returns the next method's result
RECURSIVE chain_uploads(_, _, _)
chain_uploads(k, outs, f) ==
  LET sent == IF outs[k] # "unavailable" /\ Methods[k] \in Uploading
                THEN <<[method |-> Methods[k], size |-> f.size]>>
                ELSE <<>>
  IN IF outs[k] = "answer" \/ k = Len(Methods) THEN sent
     ELSE sent \o chain_uploads(k + 1, outs, f)

\* the _transcribe_large_audio_groq calls that have not returned
Depth(stack) ==
  Cardinality({i \in 1..Len(stack) : stack[i].fn = "_transcribe_large_audio_groq"})

Top(stack) == stack[Len(stack)]

Pop(stack, n) == SubSeq(stack, 1, Len(stack) - n)

\* transcribe_with_groq(file) is entered: without a key the local model is
\* used; a file over max_size goes to _transcribe_large_audio_groq; any other
\* file is sent, and the except clauses hand it to the next method
EnterTranscribeWithGroq ==
  /\ splitStack # <<>>
  /\ Top(splitStack).fn = "transcribe_with_groq"
  /\ Top(splitStack).pc = "start"
  /\ LET f == Top(splitStack).file IN
     IF splitEnv.has_key /\ f.size > max_size
       THEN /\ Depth(splitStack) < MaxDepth
            /\ splitStack' = [splitStack EXCEPT ![Len(splitStack)].pc = "split"]
                               \o <<[fn |-> "_transcribe_large_audio_groq",
                                     file |-> f, i |-> 1]>>
            /\ splitDeepest' = IF Depth(splitStack') > splitDeepest
                                 THEN Depth(splitStack') ELSE splitDeepest
            /\ UNCHANGED splitUploads
       ELSE \E outs \in [1..Len(Methods) -> CallOutcomes] :
              /\ splitUploads' = splitUploads
                                   \o chain_uploads(IF splitEnv.has_key THEN 1 ELSE 3,
                                                    outs, f)
              /\ splitStack' = Pop(splitStack, 1)
              /\ UNCHANGED splitDeepest
  /\ UNCHANGED splitEnv
  /\ UNCHANGED nonSplitVars

\* _transcribe_large_audio_groq at chunk i: the chunk is exported and
\* transcribe_with_groq is called on the chunk file; an export that raises
\* ends the call, and with it the transcribe_with_groq call that made it
TranscribeChunk ==
  /\ splitStack # <<>>
  /\ Top(splitStack).fn = "_transcribe_large_audio_groq"
  /\ Top(splitStack).i <= NumChunks(Top(splitStack).file.length)
  /\ \E exported \in BOOLEAN :
       IF exported
         THEN LET chunk_len == ChunkLen(Top(splitStack).file.length, Top(splitStack).i)
                  chunk_file == [size |-> ExportSize(splitEnv.rate, chunk_len),
                                 length |-> chunk_len]
              IN splitStack' = [splitStack EXCEPT ![Len(splitStack)].i = @ + 1]
                                 \o <<[fn |-> "transcribe_with_groq",
                                       file |-> chunk_file, pc |-> "start"]>>
         ELSE splitStack' = Pop(splitStack, 2)
  /\ UNCHANGED <<splitEnv, splitUploads, splitDeepest>>
  /\ UNCHANGED nonSplitVars

\* _transcribe_large_audio_groq after the last chunk: it returns, and so does
\* the transcribe_with_groq call that made it
ReturnFromLargeAudio ==
  /\ splitStack # <<>>
  /\ Top(splitStack).fn = "_transcribe_large_audio_groq"
  /\ Top(splitStack).i > NumChunks(Top(splitStack).file.length)
  /\ splitStack' = Pop(splitStack, 2)
  /\ UNCHANGED <<splitEnv, splitUploads, splitDeepest>>
  /\ UNCHANGED nonSplitVars

SplitIdle ==
  /\ splitEnv = NoneVal
  /\ splitStack = <<>>
  /\ splitUploads = <<>>
  /\ splitDeepest = 0

SplitStart ==
  /\ splitEnv \in [has_key : BOOLEAN, rate : ExportRates]
  /\ \E f \in SplitFiles :
       splitStack = <<[fn |-> "transcribe_with_groq", file |-> f, pc |-> "start"]>>
  /\ splitUploads = <<>>
  /\ splitDeepest = 0

SplitNext ==
  \/ EnterTranscribeWithGroq
  \/ TranscribeChunk
  \/ ReturnFromLargeAudio

-----------------------------------------------------------------------------
(***************************************************************************)
(* Word timings of one segment: the estimate of _parse_subtitle_content    *)
(* (backend/youtube_processor.py), of _process_whisper_response            *)
(* (backend/transcript_processor.py) and of transcribe_with_groq           *)
(* (backend/video_processing/transcript_processor.py).  Segment times are  *)
(* whole milliseconds; a word time is the exact fraction <<numerator,      *)
(* denominator>> of milliseconds, where the code computes in floating      *)
(* point and rounds each operation.                                        *)
(***************************************************************************)

ThreeWords == <<"o", "n", "e", " ", "t", "w", "o", " ", " ", "s", "i", "x">>

\* segment texts: empty, blank, one word, two words, three words with a
\* double space, padded
SegmentTexts ==
  {<<>>, <<" ">>, <<"H", "i">>, HelloWorld, ThreeWords, <<" ">> \o HelloWorld \o <<" ">>}

\* the 'words' of a segment as the source gives it: no such field, an empty
\* list, a list with one timed word
SourceWords(start, end) ==
  {NoneVal,
   [kind |-> "list", items |-> <<>>],
   [kind |-> "list", items |-> <<[word |-> <<"H", "i">>, start |-> start, end |-> end]>>]}

\* segments: of positive, zero and negative length
SourceSegments ==
  UNION {{[text |-> t, start |-> s, end |-> e, words |-> w] :
            t \in SegmentTexts, w \in SourceWords(s, e)} :
         s \in {0, 1000}, e \in {500, 1000, 2000, 3000}}

\* the words a list of word_info dicts gives; blank words are left out
RECURSIVE GivenWords(_)
GivenWords(infos) ==
  IF infos = <<>> THEN <<>>
  ELSE (IF Strip(Head(infos).word) # <<>>
          THEN <<[text |-> Strip(Head(infos).word),
                  start |-> <<Head(infos).start, 1>>,
                  end |-> <<Head(infos).end, 1>>]>>
          ELSE <<>>)
         \o GivenWords(Tail(infos))

\* an estimate that forgets where the segment starts
estimate_words_FromZero(text, start, end) ==
  LET word_list == SplitWords(text) IN
  IF word_list # <<>> /\ end > start
    THEN [i \in 1..Len(word_list) |->
            [text |-> word_list[i],
             start |-> <<(i - 1) * (end - start), Len(word_list)>>,
             end |-> <<i * (end - start), Len(word_list)>>]]
    ELSE <<>>

\* "If no word-level timestamps, estimate them" (_process_whisper_response):
\* word_duration = (end - start) / len(word_list), word i from
\* start + i * word_duration to word_start + word_duration
estimate_words(text, start, end) ==
  LET word_list == SplitWords(text) IN
  IF word_list # <<>> /\ end > start
    THEN [i \in 1..Len(word_list) |->
            [text |-> word_list[i],
             start |-> <<start * Len(word_list) + (i - 1) * (end - start),
                         Len(word_list)>>,
             end |-> <<start * Len(word_list) + i * (end - start),
                       Len(word_list)>>]]
    ELSE <<>>

\* one segment in the loop of _process_whisper_response: None when the segment
\* is skipped
whisper_segment(segment) ==
  LET text == Strip(segment.text)
      words == IF segment.words # NoneVal /\ segment.words.items # <<>>
                 THEN GivenWords(segment.words.items) ELSE <<>>
  IN IF text = <<>> THEN NoneVal
     ELSE [kind |-> "dict", text |-> text, start |-> segment.start, end |-> segment.end,
           words |-> IF words = <<>>
                       THEN estimate_words(text, segment.start, segment.end)
                       ELSE words]

\* "Estimate word timings" (video_processing transcribe_with_groq):
\* duration = (end - start) / max(len(words), 1)
VP_estimate_words(text, start, end) ==
  LET words == SplitWords(text)
      n == IF Len(words) > 1 THEN Len(words) ELSE 1
  IN [i \in 1..Len(words) |->
        [text |-> words[i],
         start |-> <<start * n + (i - 1) * (end - start), n>>,
         end |-> <<start * n + i * (end - start), n>>]]

\* one segment in the loop of the video_processing transcribe_with_groq: the
\* estimate is made only when the segment has no 'words' field
VP_groq_segment(segment) ==
  [kind |-> "dict", start |-> segment.start, end |-> segment.end,
   text |-> Strip(segment.text),
   words |-> IF segment.words # NoneVal
               THEN [i \in 1..Len(segment.words.items) |->
                       [text |-> Strip(segment.words.items[i].word),
                        start |-> <<segment.words.items[i].start, 1>>,
                        end |-> <<segment.words.items[i].end, 1>>]]
               ELSE VP_estimate_words(Strip(segment.text), segment.start, segment.end)]

\* _process_whisper_response on the segment
ProcessWhisperSegment ==
  /\ wordImpl = "none"
  /\ wordImpl' = "whisper"
  /\ wordOut' = whisper_segment(wordSeg)
  /\ UNCHANGED wordSeg
  /\ UNCHANGED nonWordsVars

\* the video_processing transcribe_with_groq on the segment
VP_ProcessGroqSegment ==
  /\ wordImpl = "none"
  /\ wordImpl' = "vp"
  /\ wordOut' = VP_groq_segment(wordSeg)
  /\ UNCHANGED wordSeg
  /\ UNCHANGED nonWordsVars

\* "Process words if needed" of _parse_subtitle_content on a sentence the
\* parser appended: its text is stripped and not empty, and it has no words
ProcessSubtitleSentence ==
  /\ wordImpl = "none"
  /\ wordSeg.words = NoneVal
  /\ wordSeg.text # <<>>
  /\ Strip(wordSeg.text) = wordSeg.text
  /\ wordImpl' = "subtitles"
  /\ wordOut' = WordTimings([Sentence(wordSeg.start, wordSeg.end)
                               EXCEPT !.text = wordSeg.text])
  /\ UNCHANGED wordSeg
  /\ UNCHANGED nonWordsVars

WordsIdle ==
  /\ wordSeg = NoneVal
  /\ wordImpl = "none"
  /\ wordOut = NoneVal

WordsStart ==
  /\ wordSeg \in SourceSegments
  /\ wordImpl = "none"
  /\ wordOut = NoneVal

WordsNext ==
  \/ ProcessWhisperSegment
  \/ VP_ProcessGroqSegment
  \/ ProcessSubtitleSentence

-----------------------------------------------------------------------------
(* Specifications: one per component, the other components idle *)

PipelineInit == PipelineIdle /\ ParserIdle /\ SyncIdle /\ ContextIdle /\ AudioIdle /\ QueryIdle /\ CodecIdle /\ ClassifyIdle /\ ThreadsIdle /\ StoreIdle /\ PersistIdle /\ PromptIdle /\ InfoIdle /\ LimiterIdle /\ ManagerIdle /\ SplitIdle /\ WordsIdle

SpecPipeline == PipelineInit /\ [][PipelineNext]_vars

SpecLegacyPipeline == PipelineInit /\ [][VP_PipelineNext]_vars

ParserInit == PipelineIdle /\ ParserStart /\ SyncIdle /\ ContextIdle /\ AudioIdle /\ QueryIdle /\ CodecIdle /\ ClassifyIdle /\ ThreadsIdle /\ StoreIdle /\ PersistIdle /\ PromptIdle /\ InfoIdle /\ LimiterIdle /\ ManagerIdle /\ SplitIdle /\ WordsIdle

SpecParser == ParserInit /\ [][ParserNext]_vars

SyncInit == PipelineIdle /\ ParserIdle /\ SyncStart /\ ContextIdle /\ AudioIdle /\ QueryIdle /\ CodecIdle /\ ClassifyIdle /\ ThreadsIdle /\ StoreIdle /\ PersistIdle /\ PromptIdle /\ InfoIdle /\ LimiterIdle /\ ManagerIdle /\ SplitIdle /\ WordsIdle

SpecSync == SyncInit /\ [][SyncNext]_vars

ContextInit == PipelineIdle /\ ParserIdle /\ SyncIdle /\ ContextStart /\ AudioIdle /\ QueryIdle /\ CodecIdle /\ ClassifyIdle /\ ThreadsIdle /\ StoreIdle /\ PersistIdle /\ PromptIdle /\ InfoIdle /\ LimiterIdle /\ ManagerIdle /\ SplitIdle /\ WordsIdle

SpecContext == ContextInit /\ [][ContextNext]_vars

AudioInit == PipelineIdle /\ ParserIdle /\ SyncIdle /\ ContextIdle /\ AudioStart /\ QueryIdle /\ CodecIdle /\ ClassifyIdle /\ ThreadsIdle /\ StoreIdle /\ PersistIdle /\ PromptIdle /\ InfoIdle /\ LimiterIdle /\ ManagerIdle /\ SplitIdle /\ WordsIdle

SpecAudio == AudioInit /\ [][AudioNext]_vars

QueryInit == PipelineIdle /\ ParserIdle /\ SyncIdle /\ ContextIdle /\ AudioIdle /\ QueryIdle /\ CodecIdle /\ ClassifyIdle /\ ThreadsIdle /\ StoreIdle /\ PersistIdle /\ PromptIdle /\ InfoIdle /\ LimiterIdle /\ ManagerIdle /\ SplitIdle /\ WordsIdle

SpecQuery == QueryInit /\ [][QueryNext]_vars

CacheInit == PipelineIdle /\ ParserIdle /\ SyncIdle /\ ContextIdle /\ AudioIdle /\ CacheStart /\ CodecIdle /\ ClassifyIdle /\ ThreadsIdle /\ StoreIdle /\ PersistIdle /\ PromptIdle /\ InfoIdle /\ LimiterIdle /\ ManagerIdle /\ SplitIdle /\ WordsIdle

SpecCache == CacheInit /\ [][CacheNext]_vars

SpecLongQuery == QueryInit /\ [][LongNext]_vars

CodecInit == PipelineIdle /\ ParserIdle /\ SyncIdle /\ ContextIdle /\ AudioIdle /\ QueryIdle /\ CodecStart /\ ClassifyIdle /\ ThreadsIdle /\ StoreIdle /\ PersistIdle /\ PromptIdle /\ InfoIdle /\ LimiterIdle /\ ManagerIdle /\ SplitIdle /\ WordsIdle

SpecCodec == CodecInit /\ [][CodecNext]_vars

ClassifyInit == PipelineIdle /\ ParserIdle /\ SyncIdle /\ ContextIdle /\ AudioIdle /\ QueryIdle /\ CodecIdle /\ ClassifyStart /\ ThreadsIdle /\ StoreIdle /\ PersistIdle /\ PromptIdle /\ InfoIdle /\ LimiterIdle /\ ManagerIdle /\ SplitIdle /\ WordsIdle

SpecClassify == ClassifyInit /\ [][ClassifyNext]_vars

ThreadInit == PipelineIdle /\ ParserIdle /\ SyncIdle /\ ContextIdle /\ AudioIdle /\ SharedCacheStart /\ CodecIdle /\ ClassifyIdle /\ ThreadsStart /\ StoreIdle /\ PersistIdle /\ PromptIdle /\ InfoIdle /\ LimiterIdle /\ ManagerIdle /\ SplitIdle /\ WordsIdle

SpecThread == ThreadInit /\ [][ThreadsNext]_vars

StoreInit == PipelineIdle /\ ParserIdle /\ SyncIdle /\ ContextIdle /\ AudioIdle /\ QueryIdle /\ CodecIdle /\ ClassifyIdle /\ ThreadsIdle /\ StoreIdle /\ PersistIdle /\ PromptIdle /\ InfoIdle /\ LimiterIdle /\ ManagerIdle /\ SplitIdle /\ WordsIdle

SpecStore == StoreInit /\ [][StoreNext]_vars

PersistInit == PipelineIdle /\ ParserIdle /\ SyncIdle /\ ContextIdle /\ AudioIdle /\ QueryIdle /\ CodecIdle /\ ClassifyIdle /\ ThreadsIdle /\ StoreIdle /\ PersistIdle /\ PromptIdle /\ InfoIdle /\ LimiterIdle /\ ManagerIdle /\ SplitIdle /\ WordsIdle

SpecPersist == PersistInit /\ [][PersistNext]_vars

PromptInit == PipelineIdle /\ ParserIdle /\ SyncIdle /\ ContextIdle /\ AudioIdle /\ QueryIdle /\ CodecIdle /\ ClassifyIdle /\ ThreadsIdle /\ StoreIdle /\ PersistIdle /\ PromptStart /\ InfoIdle /\ LimiterIdle /\ ManagerIdle /\ SplitIdle /\ WordsIdle

SpecPrompt == PromptInit /\ [][PromptNext]_vars

InfoInit == PipelineIdle /\ ParserIdle /\ SyncIdle /\ ContextIdle /\ AudioIdle /\ QueryIdle /\ CodecIdle /\ ClassifyIdle /\ ThreadsIdle /\ StoreIdle /\ PersistIdle /\ PromptIdle /\ InfoIdle /\ LimiterIdle /\ ManagerIdle /\ SplitIdle /\ WordsIdle

SpecInfo == InfoInit /\ [][InfoNext]_vars

LimiterInit == PipelineIdle /\ ParserIdle /\ SyncIdle /\ ContextIdle /\ AudioIdle /\ QueryIdle /\ CodecIdle /\ ClassifyIdle /\ ThreadsIdle /\ StoreIdle /\ PersistIdle /\ PromptIdle /\ InfoIdle /\ LimiterIdle /\ ManagerIdle /\ SplitIdle /\ WordsIdle

SpecLimiter == LimiterInit /\ [][LimiterNext]_vars

ManagerInit == PipelineIdle /\ ParserIdle /\ SyncIdle /\ ContextIdle /\ AudioIdle /\ QueryIdle /\ CodecIdle /\ ClassifyIdle /\ ThreadsIdle /\ StoreIdle /\ PersistIdle /\ PromptIdle /\ InfoIdle /\ LimiterIdle /\ ManagerIdle /\ SplitIdle /\ WordsIdle

SpecManager == ManagerInit /\ [][ManagerNext]_vars

SplitInit == PipelineIdle /\ ParserIdle /\ SyncIdle /\ ContextIdle /\ AudioIdle /\ QueryIdle /\ CodecIdle /\ ClassifyIdle /\ ThreadsIdle /\ StoreIdle /\ PersistIdle /\ PromptIdle /\ InfoIdle /\ LimiterIdle /\ ManagerIdle /\ SplitStart /\ WordsIdle

SpecSplit == SplitInit /\ [][SplitNext]_vars

WordsInit == PipelineIdle /\ ParserIdle /\ SyncIdle /\ ContextIdle /\ AudioIdle /\ QueryIdle /\ CodecIdle /\ ClassifyIdle /\ ThreadsIdle /\ StoreIdle /\ PersistIdle /\ PromptIdle /\ InfoIdle /\ LimiterIdle /\ ManagerIdle /\ SplitIdle /\ WordsStart

SpecWords == WordsInit /\ [][WordsNext]_vars



-----------------------------------------------------------------------------
(* Properties of the transcript acquisition pipeline *)

YouTubeTierOrder ==
  <<[tier |-> "piped", inst |-> 1, tag |-> "piped_subtitles"],
    [tier |-> "piped", inst |-> 2, tag |-> "piped_subtitles"],
    [tier |-> "piped", inst |-> 3, tag |-> "piped_subtitles"],
    [tier |-> "ytdlp", inst |-> 0, tag |-> "yt_dlp_auto_sub"],
    [tier |-> "audio", inst |-> 0, tag |-> "groq_whisper"]>>

FacebookTierOrder ==
  <<[tier |-> "ytdlp", inst |-> 0, tag |-> "yt_dlp_facebook"],
    [tier |-> "audio", inst |-> 0, tag |-> "groq_whisper_facebook"]>>

TierOrder == IF platform = "youtube" THEN YouTubeTierOrder ELSE FacebookTierOrder

AllTiersFailed == \A i \in 1..Len(calls) : calls[i].ret = NoneVal

C2_ReturnedTranscriptNonEmpty ==
  (pc = "done" /\ envelope.kind = "dict" /\ envelope.transcript_available) =>
     envelope.transcript.nseg >= 1

\* C3: no tier outcome makes the request end by an exception, and a request
\* whose tiers have all failed ends as success with no transcript.
C3_FailuresNeverAbort ==
  /\ pc # "raised"
  /\ \A i \in 1..Len(calls) : ~calls[i].raised
  /\ (pc = "done" /\ calls # <<>> /\ AllTiersFailed) =>
       /\ Len(calls) = Len(TierOrder)
       /\ envelope.success
       /\ envelope.transcript = NoneVal
       /\ ~envelope.transcript_available

\* C3 witness: every tier of the YouTube order failed, by a timeout among
\* others, and the request ended.
C3_Witness ==
  /\ platform = "youtube"
  /\ pc = "done"
  /\ Len(calls) = 5
  /\ AllTiersFailed
  /\ calls[1].ev = "download_raises"
  /\ calls[4].ev = "timeout"
  /\ calls[5].ev = "transcribe_none"
  /\ envelope.success

\* C5: a tier that has returned has left no temporary directory behind.
C5_TempDirsDeleted ==
  \A i \in 1..Len(calls) : tierDir[calls[i].tier] # "live"


-----------------------------------------------------------------------------
(* Properties of the subtitle parsers *)

\* the segments of a parser's result, whichever key holds them
Emitted == IF parser = "yt" THEN parsed.sentences ELSE parsed.segments

\* the cues of the document that have text, in order
RECURSIVE CuesWithText(_, _)
CuesWithText(d, n) ==
  IF n = 0 THEN <<>>
  ELSE CuesWithText(d, n - 1)
         \o (IF d.texts[n] # <<>> THEN <<Cue(d, n)>> ELSE <<>>)

\* C9: parsing a well-formed document yields one segment per cue that has
\* text, in input order, with the cue's start and end and with the cue's text
\* lines joined by single spaces, each line once.
C9_OneSegmentPerCue ==
  parser \in {"yt", "vp"} =>
    LET expected == CuesWithText(doc, Len(doc.texts)) IN
    /\ Len(Emitted) = Len(expected)
    /\ \A i \in 1..Len(expected) :
         /\ Emitted[i].start = expected[i].start
         /\ Emitted[i].end = expected[i].end
         /\ Emitted[i].text = Join(expected[i].lines, <<" ">>)

\* C10: every segment a parser emits has non-empty text.
C10_NoEmptySegment ==
  parser \in {"yt", "fb"} =>
    \A i \in 1..Len(Emitted) : Emitted[i].text # <<>>


-----------------------------------------------------------------------------
(* Properties of the response sync annotators *)

\* the span an annotator writes for a timestamp of the given seconds
SpanFor(total_seconds, label) ==
  IF annotator = "live"
    THEN SpanOpen \o Dec(total_seconds) \o SpanMid \o label \o SpanClose
    ELSE SM_SpanOpen \o Dec(total_seconds) \o SM_SpanClick \o Dec(total_seconds)
           \o SM_SpanMid \o label \o SpanClose

\* the annotated text the response should give: text chunks as they are, a
\* timestamp as a span of H*3600 + M*60 + S seconds labelled with its bracket
RECURSIVE ExpectedMarked(_)
ExpectedMarked(r) ==
  IF r = <<>> THEN <<>>
  ELSE LET p == Head(r) IN
       (IF p.k = "text" THEN p.s
        ELSE SpanFor(p.h * 3600 + p.m * 60 + p.sec, PieceText(p)))
         \o ExpectedMarked(Tail(r))

\* C8: every bracketed timestamp of the response is replaced by a span whose
\* seconds are H*3600 + M*60 + S ([H:MM:SS]) or M*60 + S ([M:SS]), labelled with
\* the bracket text, and all other text is unchanged.
C8_SyncSeconds ==
  annotator # "none" => marked = ExpectedMarked(response)

-----------------------------------------------------------------------------
(* Properties of the context builder *)

\* the lines of the sentences that have text, in sentence order
RECURSIVE RenderedLines(_)
RenderedLines(sentences) ==
  IF sentences = <<>> THEN <<>>
  ELSE (IF Strip(Head(sentences).text) # <<>>
          THEN <<FormattedSentence(Head(sentences))>> ELSE <<>>)
         \o RenderedLines(Tail(sentences))

RECURSIVE SumLen(_, _)
SumLen(lines, k) == IF k = 0 THEN 0 ELSE SumLen(lines, k - 1) + Len(lines[k])

\* 4 * maxContextTokens - 2000 - len(userQuery)
Budget(args) == 4 * args.max_context_length - 2000 - Len(args.user_query)

\* how many leading lines fit the budget
Fitting(lines, budget) ==
  CHOOSE k \in 0..Len(lines) :
    /\ SumLen(lines, k) <= budget \/ k = 0
    /\ k < Len(lines) => SumLen(lines, k + 1) > budget

-----------------------------------------------------------------------------
(* Properties of the audio transcription adapter *)

\* the sentences chunk k gave
SentencesOf(k) == IF HasSentences(chunkData[k]) THEN chunkData[k].sentences ELSE <<>>

\* how many sentences the chunks before chunk k gave
RECURSIVE CountBefore(_)
CountBefore(k) == IF k <= 1 THEN 0 ELSE CountBefore(k - 1) + Len(SentencesOf(k - 1))

\* the summed duration of the chunks before chunk k
RECURSIVE OffsetOf(_)
OffsetOf(k) == IF k <= 1 THEN 0 ELSE OffsetOf(k - 1) + ChunkLen(audio.length, k - 1)

\* a file over the ceiling was split and every chunk was exported
ChunkedRun ==
  /\ adapter = "live"
  /\ audio.has_key
  /\ audio.file_size > max_size
  /\ \A k \in 1..Len(chunkData) : chunkData[k].kind # "raise"

-----------------------------------------------------------------------------
(* Properties of process_query *)

\* calls i and j name the same session, model, query and transcript
SameRequest(i, j) ==
  /\ qlog[i].args.session_id = qlog[j].args.session_id
  /\ qlog[i].args.model_id = qlog[j].args.model_id
  /\ qlog[i].args.user_query = qlog[j].args.user_query
  /\ qlog[i].args.transcript_data = qlog[j].args.transcript_data

\* call i went to the provider and stored a successful result; call j is a
\* later call of the same request, less than the TTL after call i
Repeated(i, j) ==
  /\ i < j
  /\ SameRequest(i, j)
  /\ qlog[i].dispatched # "none"
  /\ qlog[i].result.success
  /\ qlog[j].time - qlog[i].time < 300

\* C4: of two process_query calls for the same session, model, query and
\* transcript, the second within the TTL of the first, only the first calls the
\* provider; the second returns the stored text with cached = true.
C4_SecondCallCached ==
  \A i, j \in 1..Len(qlog) :
    Repeated(i, j) =>
      /\ qlog[j].dispatched = "none"
      /\ qlog[j].result.success
      /\ qlog[j].result.cached
      /\ qlog[j].result.text = qlog[i].result.text
      /\ ~qlog[i].result.cached

\* C4 witness: the provider answered the first call, 150 s later the same
\* request came back cached without a provider call.
C4_Witness ==
  /\ Len(qlog) = 2
  /\ Repeated(1, 2)
  /\ qlog[1].dispatched = "google_gemini"
  /\ qlog[2].time = 150
  /\ qlog[2].dispatched = "none"
  /\ qlog[2].result.cached

(***************************************************************************)
(* Timestamp codec                                                         *)
(***************************************************************************)
RoundTrip == codec.step = "parsed" /\ codec.format # "none"

\* C11: parsing what format_timestamp wrote for a number of seconds s >= 0
\* gives floor(s) (s itself when s is whole), in the MM:SS form and in the
\* HH:MM:SS form, for the helpers functions and for SyncManager's.
C11_RoundTrip ==
  (RoundTrip /\ tsSeconds.ms >= 0 /\ codec.parse \in {"helpers", "sync_manager"})
    => tsParsed = Float((tsSeconds.ms \div 1000) * 1000)

\* the largest claimed value with a fraction, written with hours and read back
C11_Witness ==
  /\ RoundTrip
  /\ tsSeconds = Float(MaxSeconds * 1000 + 999)
  /\ codec.format = "helpers"
  /\ codec.parse = "helpers"
  /\ tsParsed = Float(MaxSeconds * 1000)

\* whether a string is one to three parts between colons, each a number
NumericParts(str) ==
  LET parts == Split(str, <<":">>) IN
  /\ Len(parts) <= 3
  /\ \A i \in 1..Len(parts) :
       IF i = Len(parts) THEN FloatOk(Magnitude(parts[i])) ELSE PyIntOk(parts[i])

\* C12: every parser returns 0.0 for a string that is not one to three
\* numeric parts between colons, and a formatter writes "00:00" for a
\* negative number.
C12_FailsSoft ==
  /\ (codec.step = "parsed" /\ codec.format = "none" /\ ~NumericParts(tsText.str))
       => tsParsed = Zero
  /\ (codec.step = "formatted" /\ tsSeconds.ms < 0)
       => tsText = Str(<<"0", "0", ":", "0", "0">>)

(***************************************************************************)
(* Query classification                                                    *)
(***************************************************************************)
PriorityOrder ==
  <<"summary", "word_analysis", "quiz", "translation", "explanation", "coding">>

\* the keyword list a classifier has for a category
KeywordsOf(impl, cat) ==
  IF impl = "live" THEN Keywords[cat]
  ELSE IF cat \in DOMAIN AM_Keywords THEN AM_Keywords[cat]
  ELSE {}

\* the places in the order of the categories with a keyword in the query
Matching(impl, query) ==
  {i \in 1..Len(PriorityOrder) :
     AnyIn(KeywordsOf(impl, PriorityOrder[i]), Lower(query))}

FirstMatch(impl, query) ==
  IF Matching(impl, query) = {} THEN "general"
  ELSE PriorityOrder[CHOOSE i \in Matching(impl, query) :
                       \A j \in Matching(impl, query) : i <= j]

\* C13: each classifier returns the first category, in the order summary,
\* word_analysis, quiz, translation, explanation, coding, that has a keyword
\* inside the lower-cased query, and general when none has.
C13_FirstCategoryWins ==
  classifier \in {"live", "am"} => category = FirstMatch(classifier, clsQuery)

(***************************************************************************)
(* Model validation and provider dispatch                                  *)
(***************************************************************************)
UnknownModel(i) == qlog[i].args.model_id \notin DOMAIN available_models

\* what process_query does for an unknown model apart from the error text
RejectedQuietly(i) ==
  /\ ~qlog[i].result.success
  /\ qlog[i].result.model = qlog[i].args.model_id
  /\ qlog[i].provider_calls = <<>>
  /\ qlog[i].cache_after = qlog[i].cache_before

\* C14: a query for a model id outside the available catalog returns
\* success = false with an error listing the available model ids, calls no
\* provider adapter and writes nothing to the response cache.
C14_UnknownModelRejected ==
  \A i \in 1..Len(qlog) :
    UnknownModel(i) =>
      /\ RejectedQuietly(i)
      /\ qlog[i].result.available_models = DOMAIN available_models

KeyOf(i) ==
  generate_cache_key(qlog[i].args.session_id, qlog[i].args.model_id,
                     qlog[i].args.user_query, qlog[i].args.transcript_data)

Entries(cache) == {cache[k] : k \in 1..Len(cache)}

\* C15: a query calls at most one provider adapter, at most once, the one of
\* the requested model's declared provider; when that call fails the result
\* is success = false naming that provider and the model, and the cache holds
\* no entry for the request and nothing it did not hold before.
C15_OneProviderCall ==
  \A i \in 1..Len(qlog) :
    /\ Len(qlog[i].provider_calls) <= 1
    /\ qlog[i].provider_calls # <<>> =>
         /\ ~UnknownModel(i)
         /\ qlog[i].provider_calls[1] = available_models[qlog[i].args.model_id].provider
         /\ ~qlog[i].result.success =>
              /\ qlog[i].result.provider = qlog[i].provider_calls[1]
              /\ qlog[i].result.model = qlog[i].args.model_id
              /\ CacheIndex(qlog[i].cache_after, KeyOf(i)) = 0
              /\ Entries(qlog[i].cache_after) \subseteq Entries(qlog[i].cache_before)

\* a failed openrouter call after a stored answer of another model
C15_Witness ==
  /\ Len(qlog) = 2
  /\ qlog[1].result.success
  /\ qlog[2].provider_calls = <<"openrouter">>
  /\ ~qlog[2].result.success
  /\ qlog[2].result.provider = "openrouter"
  /\ Len(response_cache) = 1

(***************************************************************************)
(* Response cache capacity                                                 *)
(***************************************************************************)
\* call i stored its answer
Wrote(i) == qlog[i].result.success /\ qlog[i].provider_calls # <<>>

\* the cache as the write of call i found it: after the lookup of its key
AtWrite(i) == get_cached_response(qlog[i].cache_before, KeyOf(i), qlog[i].time).cache

Oldest(cache) ==
  {e \in Entries(cache) : \A f \in Entries(cache) : e.cache_time <= f.cache_time}

NewEntry(i) ==
  [key |-> KeyOf(i), response |-> qlog[i].result, cache_time |-> qlog[i].time]

FoundFull(i) == Len(AtWrite(i)) >= cache_max_size

\* C19: the response cache never holds more than cache_max_size (100)
\* entries, and a write that finds it full removes exactly one entry, one with
\* the oldest insertion time, and then inserts; a write that finds room
\* removes nothing.
C19_CacheBounded ==
  /\ Len(response_cache) <= cache_max_size
  /\ \A i \in 1..Len(qlog) :
       Wrote(i) =>
         /\ NewEntry(i) \in Entries(qlog[i].cache_after)
         /\ FoundFull(i) =>
              /\ Len(qlog[i].cache_after) = Len(AtWrite(i))
              /\ \E e \in Oldest(AtWrite(i)) :
                   Entries(qlog[i].cache_after)
                     = (Entries(AtWrite(i)) \ {e}) \cup {NewEntry(i)}
         /\ ~FoundFull(i) =>
              /\ Len(qlog[i].cache_after) = Len(AtWrite(i)) + 1
              /\ Entries(AtWrite(i)) \subseteq Entries(qlog[i].cache_after)

\* the second write of a run finds 100 entries and evicts the oldest of them
C19_Witness ==
  /\ Len(qlog) = 2
  /\ Wrote(1)
  /\ Wrote(2)
  /\ Len(qlog[2].cache_before) = cache_max_size
  /\ Len(response_cache) = cache_max_size
  /\ FilledCache[1] \notin Entries(response_cache)
  /\ FilledCache[2] \in Entries(response_cache)

(***************************************************************************)
(* Concurrent queries                                                      *)
(***************************************************************************)
\* thread t got an answer from the provider
Answered(t) == Truthy(thread[t].ai_response)

\* C16: with queries running concurrently on the shared orchestrator, the
\* cache never holds more than cache_max_size entries, no thread evicts an
\* entry another thread has evicted, and a query the provider answered ends
\* with that answer and with its entry in the cache.
C16_CacheExclusive ==
  /\ Len(response_cache) <= cache_max_size
  /\ \A t \in Threads :
       (thread[t].pc = "done" /\ Answered(t)) =>
         /\ thread[t].result.success
         /\ CacheIndex(response_cache, thread[t].cache_key) # 0

(***************************************************************************)
(* Maximum duration                                                        *)
(***************************************************************************)
TooLong == Truthy(videoInfo) /\ videoInfo.duration > MAX_VIDEO_DURATION

\* C17: a request for a video whose metadata duration exceeds
\* MAX_VIDEO_DURATION invokes no transcript tier and ends as a failure, on
\* both platforms and from every processing entry point.
C17_TooLongNeverProcessed ==
  TooLong =>
    /\ calls = <<>>
    /\ pc = "done"
    /\ envelope.kind = "dict"
    /\ ~envelope.success

(***************************************************************************)
(* Stored transcripts                                                      *)
(***************************************************************************)
\* C18: a process request for a URL whose transcript is stored is answered
\* from the stored session without calling the pipeline and leaves the stored
\* transcript as it is; only a reprocess request replaces a stored
\* transcript, and it replaces the whole document.
C18_StoredTranscriptKept ==
  \A i \in 1..Len(requests) :
    LET r == requests[i] IN
    /\ (r.route = "process" /\ Truthy(r.stored_before)) =>
         /\ ~r.invoked
         /\ r.answer = "cached"
         /\ r.stored_after = r.stored_before
    /\ (Truthy(r.stored_before) /\ r.stored_after # r.stored_before) =>
         /\ r.route = "reprocess"
         /\ r.stored_after.source = "piped_subtitles_reprocessed"

(***************************************************************************)
(* Persisted response cache                                                *)
(***************************************************************************)
\* request i saved its response, and request j comes later, for the same
\* session and query, before the saved response expires
SavedBefore(i, j) ==
  /\ i < j
  /\ routeCalls[i].saved
  /\ routeCalls[j].args.session_id = routeCalls[i].args.session_id
  /\ routeCalls[j].args.user_query = routeCalls[i].args.user_query
  /\ routeCalls[j].time < routeCalls[i].time + response_lifetime

\* C20: the persisted cache is keyed by session, model and query: the lookup
\* the route makes for a later identical request finds the saved response,
\* and the lookup for the same session and query with another model does not
\* return it.
C20_PersistedCacheKeyed ==
  \A i, j \in 1..Len(routeCalls) :
    SavedBefore(i, j) =>
      IF routeCalls[j].args.model_id = routeCalls[i].args.model_id
        THEN /\ routeCalls[j].db_hit
             /\ routeCalls[j].result.text = routeCalls[i].result.text
        ELSE ~(routeCalls[j].db_hit
               /\ routeCalls[j].result.model = routeCalls[i].args.model_id)
-----------------------------------------------------------------------------
(***************************************************************************)
(* Transcription failures                                                  *)
(***************************************************************************)

\* the speech-to-text provider call of transcribe_with_groq failed, or could
\* not be made for want of credentials
ProviderCallFailed ==
  /\ adapter # "none"
  /\ audio.file_size <= max_size
  /\ \/ ~audio.has_key
     \/ /\ adapter = "live"
        /\ Len(attempts) > 1 \/ transcription = NoneVal
     \/ /\ adapter = "vp"
        /\ ~transcription.success

\* the value returned tells the pipeline that the tier failed: None for the
\* adapter of backend/transcript_processor.py, success = False for the one of
\* backend/video_processing
FailureValue ==
  IF adapter = "vp" THEN ~transcription.success ELSE transcription = NoneVal

\* C21: when the speech-to-text provider call fails, transcribe returns a
\* failure value and has not switched to another transcription provider.
C21_FailureWithoutSwitch ==
  ProviderCallFailed =>
    /\ FailureValue
    /\ \A i \in 1..Len(attempts) : attempts[i] = "groq_whisper"
-----------------------------------------------------------------------------
(***************************************************************************)
(* Shape of a produced transcript                                          *)
(***************************************************************************)

\* the sentences are in non-decreasing start order
StartOrdered(sentences) ==
  \A i \in 1..(Len(sentences) - 1) : sentences[i].start <= sentences[i + 1].start

\* the end time of the last sentence, 0 without sentences
LastEnd(sentences) ==
  IF sentences = <<>> THEN 0 ELSE sentences[Len(sentences)].end

\* C22: a transcript returned by transcribe_with_groq (one file, chunked, or
\* by a fallback method) has its sentences in non-decreasing start order and
\* a total_duration equal to the end of its last sentence, 0 without
\* sentences.
C22_OrderedWithDuration ==
  (adapter = "live" /\ Truthy(transcription)) =>
    /\ StartOrdered(transcription.sentences)
    /\ transcription.total_duration = LastEnd(transcription.sentences)
-----------------------------------------------------------------------------
(***************************************************************************)
(* Order of the steps of a query                                           *)
(***************************************************************************)

\* the position of a step in an order of the steps
RECURSIVE Position(_, _)
Position(order, step) ==
  IF order = <<>> THEN 0
  ELSE IF order[Len(order)] = step THEN Len(order)
  ELSE Position(SubSeq(order, 1, Len(order) - 1), step)

\* query i entered its steps in the given order: it began with the first step
\* of the order and went forward only
Followed(order, i) ==
  LET steps == qlog[i].steps IN
  /\ steps[1] = order[1]
  /\ \A k \in 1..(Len(steps) - 1) :
       Position(order, steps[k]) < Position(order, steps[k + 1])

\* where query i ended
EndedIn(i) == qlog[i].steps[Len(qlog[i].steps)]

\* query i: a hit passes through the cache check to Done with no other step,
\* and an unknown model fails in Validating, a provider error in Dispatch,
\* and nothing else fails
HitsAndFailures(i) ==
  /\ qlog[i].result.cached =>
       /\ EndedIn(i) = "Done"
       /\ \A k \in 1..Len(qlog[i].steps) :
            qlog[i].steps[k] \in {"Validating", "CacheCheck", "Done"}
  /\ qlog[i].result.success <=> EndedIn(i) = "Done"
  /\ ~qlog[i].result.success => EndedIn(i) \in {"Validating", "Dispatch"}
  /\ EndedIn(i) = "Validating" => UnknownModel(i)
  /\ EndedIn(i) = "Dispatch" => qlog[i].provider_calls # <<>>

CacheFirst ==
  <<"CacheCheck", "Validating", "ContextPrep", "Dispatch", "PostProcess", "Done">>

-----------------------------------------------------------------------------
(***************************************************************************)
(* Prompt assembly                                                         *)
(***************************************************************************)

\* sub in str
Mentions(str, sub) ==
  \E i \in 1..(Len(str) - Len(sub) + 1) : SubSeq(str, i, i + Len(sub) - 1) = sub

\* the prompt tells the model to put timestamps into its answer: outside the
\* transcript lines and the query (which hold no such word here) it says
\* "timestamps"
AsksForTimestamps ==
  Mentions(Lower(prompt.str), <<"t", "i", "m", "e", "s", "t", "a", "m", "p", "s">>)

\* the model of the request declares timestamp support and sync was requested
SyncWanted ==
  promptArgs.enable_sync /\ available_models[promptArgs.model_id].supports_timestamps

\* C24: the assembled prompt asks for [HH:MM:SS] timestamp markers only if
\* the model declares timestamp support and sync was requested; otherwise it
\* holds no instruction to include timestamps.
C24_TimestampsOnlyWithSync ==
  (prompt # NoneVal /\ AsksForTimestamps) => SyncWanted
-----------------------------------------------------------------------------
(***************************************************************************)
(* Annotation of answers                                                   *)
(***************************************************************************)

\* the model of call i declares timestamp support
SupportsTimestamps(i) ==
  ~UnknownModel(i) /\ available_models[qlog[i].args.model_id].supports_timestamps

\* the text stored under the key of call i in a cache that holds the key
CachedText(cache, i) == cache[CacheIndex(cache, KeyOf(i))].response.text

\* call i, the annotator being due under the given condition: it ran once if
\* due and not at all otherwise, the answer of a successful dispatch is the
\* provider's text, annotated if due, and it is the text cached; a hit returns
\* the cached text as it is
AnnotatedIf(due, i) ==
  /\ qlog[i].annotations = IF due THEN 1 ELSE 0
  /\ Wrote(i) =>
       /\ qlog[i].result.text = IF due THEN add_sync_markers(qlog[i].raw_text)
                                       ELSE qlog[i].raw_text
       /\ CachedText(qlog[i].cache_after, i) = qlog[i].result.text
  /\ qlog[i].result.cached =>
       /\ qlog[i].annotations = 0
       /\ qlog[i].result.text = CachedText(qlog[i].cache_before, i)

-----------------------------------------------------------------------------
(***************************************************************************)
(* Metadata fetch over the caption-proxy instances                         *)
(***************************************************************************)

\* the requests made of caption-proxy instances
PipedCalls == {k \in 1..Len(infoCalls) : infoCalls[k].via = "piped"}

\* request k was answered successfully: status 200 and a JSON object
Answered200(k) == infoCalls[k].o.status = 200 /\ infoCalls[k].o.ev = "object"

\* C26: the metadata fetch asks the caption-proxy instances in list order
\* and returns the result of the first that answers successfully; a network
\* error, a non-200 status or a malformed payload is never fatal and only
\* advances to the next instance, and no instance is asked after a success.
C26_FirstAnsweringInstance ==
  /\ infoPc # "raised"
  /\ \A k \in PipedCalls :
       /\ infoCalls[k].instance = k
       /\ k <= NumPiped
       /\ Truthy(infoCalls[k].ret) <=> Answered200(k)
       /\ Answered200(k) =>
            /\ k = Len(infoCalls)
            /\ infoPc = "done"
            /\ Truthy(info)
            /\ info.duration = infoCalls[k].o.duration
            /\ infoImpl = "live" => info.instance_used = k /\ info.piped_instance = k
       /\ (~Answered200(k) /\ k < NumPiped) =>
            \/ k + 1 \in PipedCalls
            \/ infoPc = "piped" /\ infoIdx = k + 1 /\ k = Len(infoCalls)
  /\ (infoPc = "done" /\ \A k \in PipedCalls : ~Answered200(k)) =>
       /\ Cardinality(PipedCalls) = NumPiped
       /\ infoImpl = "vp" => info = NoneVal

\* C26 witness: the first instance could not be reached, the second answered
\* 500, the third answered, and its metadata was returned.
C26_Witness ==
  /\ infoPc = "done"
  /\ Len(infoCalls) = 3
  /\ infoCalls[1].o.ev = "get_raises"
  /\ infoCalls[2].o.status = 500
  /\ Answered200(3)
  /\ infoCalls[3].o.duration = 60
  /\ Truthy(info)
  /\ info.duration = 60
-----------------------------------------------------------------------------
(***************************************************************************)
(* Expiry of cached answers                                                *)
(***************************************************************************)

\* the cache held an entry for the request of call i when the call began
Held(i) == CacheIndex(qlog[i].cache_before, KeyOf(i)) # 0

HeldEntry(i) == qlog[i].cache_before[CacheIndex(qlog[i].cache_before, KeyOf(i))]

\* the age of that entry at the call, seconds
Age(i) == qlog[i].time - HeldEntry(i).cache_time

\* the entries of a cache under other keys than that of call i
Others(cache, i) == {e \in Entries(cache) : e.key # KeyOf(i)}

\* C27: a response-cache entry older than the TTL (300 s) is never returned:
\* the lookup that finds it removes it, the call is a miss and goes to the
\* provider again; an entry younger than the TTL is returned as stored.
C27_ExpiredNeverReturned ==
  \A i \in 1..Len(qlog) :
    /\ (Held(i) /\ Age(i) > 300) =>
         /\ ~qlog[i].result.cached
         /\ Len(qlog[i].provider_calls) = 1
         /\ HeldEntry(i) \notin Entries(qlog[i].cache_after)
         /\ \A e \in Entries(qlog[i].cache_after) :
              e.key = KeyOf(i) =>
                /\ e.cache_time = qlog[i].time
                /\ e.response = qlog[i].result
                /\ qlog[i].result.success
         /\ Others(qlog[i].cache_after, i) = Others(qlog[i].cache_before, i)
    /\ (Held(i) /\ Age(i) < 300) =>
         /\ qlog[i].result = [HeldEntry(i).response EXCEPT !.cached = TRUE]
         /\ qlog[i].provider_calls = <<>>
         /\ [HeldEntry(i) EXCEPT !.response = qlog[i].result]
              \in Entries(qlog[i].cache_after)
         /\ Len(qlog[i].cache_after) = Len(qlog[i].cache_before)

\* C27 witness: an answer stored at 0 s was found at 450 s, the provider was
\* called again and failed, and the cache is empty.
C27_Witness ==
  /\ Len(qlog) = 2
  /\ qlog[1].time = 0
  /\ qlog[1].result.success
  /\ qlog[2].time = 450
  /\ Held(2)
  /\ Age(2) = 450
  /\ qlog[2].provider_calls # <<>>
  /\ ~qlog[2].result.success
  /\ response_cache = <<>>
-----------------------------------------------------------------------------
(***************************************************************************)
(* What a cache hit is served for                                          *)
(***************************************************************************)

\* call j was served the entry that call i stored
ServedFrom(i, j) ==
  /\ i < j
  /\ Wrote(i)
  /\ qlog[j].result.cached
  /\ KeyOf(i) = KeyOf(j)
  /\ HeldEntry(j).cache_time = qlog[i].time

\* C28: a cache hit is served only for the session, model, query and
\* transcript that produced the entry; queries whose transcripts differ in
\* any segment never share an entry.
C28_HitForSameTranscript ==
  \A i, j \in 1..Len(qlog) :
    ServedFrom(i, j) =>
      /\ qlog[j].args.session_id = qlog[i].args.session_id
      /\ qlog[j].args.model_id = qlog[i].args.model_id
      /\ qlog[j].args.user_query = qlog[i].args.user_query
      /\ qlog[j].args.transcript_data = qlog[i].args.transcript_data
-----------------------------------------------------------------------------
(***************************************************************************)
(* Rate limiter                                                            *)
(***************************************************************************)

\* the requests of the client of call i that were admitted in the window that
\* ends with call i: less than window seconds before it, call i included
AdmittedInWindow(i) ==
  {j \in 1..i : /\ limiterLog[j].identifier = limiterLog[i].identifier
                /\ limiterLog[j].allowed
                /\ limiterLog[i].time - limiterLog[j].time < window * 1000}

\* C29: per client identifier at most max_requests requests are admitted in
\* any interval of length window (taken open at its older end); a rejected
\* request is not recorded, and the retry_after of a rejection is between 0
\* and window.
C29_AtMostMaxPerWindow ==
  \A i \in 1..Len(limiterLog) :
    /\ Cardinality(AdmittedInWindow(i)) <= max_requests
    /\ ~limiterLog[i].allowed =>
         /\ limiterLog[i].after = Recent(limiterLog[i].before, limiterLog[i].time)
         /\ Len(limiterLog[i].after) = max_requests
         /\ limiterLog[i].retry_after >= 0
         /\ limiterLog[i].retry_after <= window
    /\ limiterLog[i].allowed =>
         limiterLog[i].after
           = Append(Recent(limiterLog[i].before, limiterLog[i].time), limiterLog[i].time)

\* C29 witness: a client was admitted twice, rejected half a second later
\* with retry_after 1, and admitted again once the window had passed.
C29_Witness ==
  \E i, j \in 1..Len(limiterLog) :
    /\ i < j
    /\ limiterLog[i].identifier = limiterLog[j].identifier
    /\ ~limiterLog[i].allowed
    /\ limiterLog[i].retry_after = 1
    /\ Len(limiterLog[i].before) = max_requests
    /\ limiterLog[j].allowed
-----------------------------------------------------------------------------
(***************************************************************************)
(* Cache manager                                                           *)
(***************************************************************************)

\* the keys of the cache map, and of the metadata map
CacheKeys == {cmCache[i].key : i \in 1..Len(cmCache)}

MetadataKeys == {key \in ManagerKeys : Truthy(cmMetadata[key])}

\* C30: after any sequence of set, get, delete, clear and cleanup_expired
\* calls the cache map and the metadata map have the same key set and the
\* cache holds at most max_size entries; an eviction caused by a full cache
\* removes the evicted key from both maps.
C30_MapsAgree ==
  /\ CacheKeys = MetadataKeys
  /\ Len(cmCache) <= CM_max_size

(***************************************************************************)
(* Sessions marked as having a transcript                                  *)
(***************************************************************************)
\* the sessions whose document says transcript_available
Marked == {u \in VideoUrls : /\ Truthy(video_sessions[u])
                             /\ video_sessions[u].transcript_available}

\* C31: after any sequence of process, reprocess and query requests, failed
\* writes included, every session marked transcript_available has a stored
\* transcript, and no query was answered "Transcript data not found".
C31_MarkedHasTranscript ==
  /\ \A u \in Marked : Truthy(transcripts[u])
  /\ \A i \in 1..Len(requests) : requests[i].answer # "Transcript data not found"
-----------------------------------------------------------------------------
(***************************************************************************)
(* Splitting of large audio                                                *)
(***************************************************************************)

\* C32: transcribe_with_groq never splits a chunk again, so at most one
\* _transcribe_large_audio_groq call is open at any time, whatever the size of
\* the exported chunks, and no file larger than max_size (25 MB) is sent to a
\* service.
C32_SplitOnceUploadsBounded ==
  /\ splitDeepest <= 1
  /\ \A i \in 1..Len(splitUploads) : splitUploads[i].size <= max_size
-----------------------------------------------------------------------------
(***************************************************************************)
(* Length of the rendered context                                          *)
(***************************************************************************)

\* the lines of the context as '\n'.join wrote them
ContextLines == IF context = <<>> THEN <<>> ELSE Split(context, <<"\n">>)

\* whether the context ends with the truncation marker
Truncated == ContextLines # <<>> /\ Last(ContextLines) = TruncationMarker

\* the transcript lines of the context: its lines without the marker
KeptLines ==
  IF Truncated THEN SubSeq(ContextLines, 1, Len(ContextLines) - 1) ELSE ContextLines

\* a context was rendered from a transcript under a budget that is not negative
RenderedUnderBudget ==
  /\ builder = "live"
  /\ Truthy(ctxArgs.transcript_data)
  /\ Budget(ctxArgs) >= 0

-----------------------------------------------------------------------------
(***************************************************************************)
(* Synthesised word timings                                                *)
(***************************************************************************)

\* the source gave no word timings: no 'words' field, or an empty list
SourceGaveNone ==
  IF wordSeg.words = NoneVal THEN TRUE ELSE wordSeg.words.items = <<>>

\* the whitespace-separated tokens of the segment text
Tokens == SplitWords(wordSeg.text)

\* equality of two fractions <<numerator, denominator>>
FracEq(a, b) == a[1] * b[2] = b[1] * a[2]

\* the words split the segment evenly: one word per token, word i (0-based, of
\* n) from start + i * (end - start) / n to start + (i + 1) * (end - start) / n,
\* the first from the segment start, each from where the one before ends, the
\* last to the segment end
EvenPartition ==
  LET words == wordOut.words
      n == Len(Tokens)
      start == wordSeg.start
      end == wordSeg.end
  IN /\ Len(words) = n
     /\ \A i \in 1..Len(words) :
          /\ words[i].text = Tokens[i]
          /\ FracEq(words[i].start, <<start * n + (i - 1) * (end - start), n>>)
          /\ FracEq(words[i].end, <<start * n + i * (end - start), n>>)
          /\ i = 1 => FracEq(words[i].start, <<start, 1>>)
          /\ i > 1 => FracEq(words[i].start, words[i - 1].end)
          /\ i = n => FracEq(words[i].end, <<end, 1>>)

\* a segment was turned into a sentence
SegmentProcessed == wordImpl # "none" /\ wordOut # NoneVal

Synthesised ==
  /\ SegmentProcessed
  /\ SourceGaveNone
  /\ wordImpl = "whisper" => wordSeg.end > wordSeg.start
  /\ wordImpl = "vp" => wordSeg.words = NoneVal

=============================================================================
